---- MODULE Spec2Model ----
(***************************************************************************)
(* picam_bench: camera benchmarking orchestrator (src/picam_bench.c).      *)
(* The model follows main(): source selection, session setup, the two      *)
(* spawned children (preview consumer "prev", camera producer "cam"),      *)
(* the SIGINT/SIGTERM handler, the child waits and the cleanup.            *)
(***************************************************************************)
EXTENDS Integers, Sequences, FiniteSets, TLC

VARIABLES
    have_ffmpeg,   \* command_exists("ffmpeg")
    have_cam_cmd,  \* camera_cmd() != NULL
    report,        \* what "<cmd> --list-cameras" printed (first read())
    devs,          \* /dev/video<N> nodes present: device number -> v4l2 capability
    dev_fmts,      \* pixel formats VIDIOC_ENUM_FMT lists for the selected video node
    cfg,           \* cfg_t (and no_overlay) as left by parse_cfg()
    pc,            \* position of the main thread
    use_csi,       \* main()'s use_csi
    usbnode,       \* main()'s usbnode (device number, NoNode for "")
    die_msg,       \* diagnostic of die(), "" when die() was not called
    exit_code,     \* exit status of the supervisor, NoExit while it runs
    g_ctx_set,     \* g_ctx != NULL
    handlers,      \* install_sighandlers() has run
    running,       \* ctx.running
    prev_pid,      \* ctx.prev_pid (0 = not recorded)
    cam_pid,       \* ctx.cam_pid  (0 = not recorded)
    tmpdir,        \* "none" | "exists" | "removed"
    fifo,          \* the named pipe exists in tmpdir
    stats,         \* the status file: "none" when absent, else its content
    fifo_rd,       \* the consumer holds the read end of the named pipe
    fifo_wr,       \* processes holding the write end of the named pipe
    child,         \* per child: st, how it ended, exit status
    sigpend,       \* per child: a SIGTERM is pending
    kills,         \* per child: number of kill(pid, SIGTERM) calls made by the handler
    intr,          \* number of SIGINT/SIGTERM delivered to the supervisor
    eintr,         \* a blocking call of the main thread was interrupted
    threads,       \* "none" | "started" | "joined"
    st1, st2,      \* main()'s st1, st2: statuses collected by the two waitpid() calls
    usbfmt,        \* main()'s usbfmt (fmt_support_t)
    prev_argv,     \* argument vector of the consumer, <<>> before it is built
    cam_argv,      \* argument vector of the producer, <<>> before it is built
    proc,          \* /proc as the sampler finds it at its reads of one cycle
    stream,        \* bytes the consumer has yet to deliver on its diagnostic stream
    latest_fps,    \* overlay_state_t.latest_fps
    latest_bitrate,\* overlay_state_t.latest_bitrate
    mu,            \* overlay_state_t.mu: "none" or the thread holding it
    lr,            \* ffmpeg_log_reader(): position and locals
    sw             \* stats_writer(): position and locals

vars == <<have_ffmpeg, have_cam_cmd, report, devs, dev_fmts, cfg, pc, use_csi,
          usbnode, die_msg, exit_code, g_ctx_set, handlers, running, prev_pid,
          cam_pid, tmpdir, fifo, stats, fifo_rd, fifo_wr, child, sigpend, kills,
          intr, eintr, threads, st1, st2, usbfmt, prev_argv, cam_argv,
          proc, stream, latest_fps, latest_bitrate, mu, lr, sw>>

\* what no step of main() and no signal changes
envVars == <<have_ffmpeg, have_cam_cmd, report, devs, dev_fmts, cfg>>

\* what the pipeline builders leave behind
buildVars == <<usbfmt, prev_argv, cam_argv>>

\* what only the two overlay threads and their inputs change
threadVars == <<proc, stream, latest_fps, latest_bitrate, mu, lr, sw>>

\* a double, held as the exact ratio n/d; d = 0 is the NaN of 0.0/0.0
Ratio(n, d) == [n |-> n, d |-> d]
Zero == Ratio(0, 1)

(***************************************************************************)
(* Bounds of the model.                                                    *)
(***************************************************************************)
MaxPresent == 2      \* video nodes present at once in the selector's environment
MaxInterrupts == 2   \* signals delivered to the supervisor in one run

NoNode == -1
NoExit == -1

(***************************************************************************)
(* Strings: strstr() and the position of the first match at or after from. *)
(***************************************************************************)
Strstr(h, n) ==
    \E i \in 1..(Len(h) - Len(n) + 1) : SubSeq(h, i, i + Len(n) - 1) = n

\* strncmp(s, p, strlen(p)) == 0
StartsWith(s, p) == Len(s) >= Len(p) /\ SubSeq(s, 1, Len(p)) = p

Find(h, n, from) ==
    LET S == {i \in from..(Len(h) - Len(n) + 1) : SubSeq(h, i, i + Len(n) - 1) = n}
    IN  IF S = {} THEN 0 ELSE CHOOSE i \in S : \A j \in S : i <= j

(***************************************************************************)
(* V4L2 devices.  A node /dev/video<N> is named by N; glob() returns the   *)
(* paths sorted as strings, so the order is that of the decimal digits.    *)
(***************************************************************************)
DevNums == {1, 2, 10}

RECURSIVE Digits(_)
Digits(n) == IF n < 10 THEN <<n>> ELSE Digits(n \div 10) \o <<n % 10>>

\* strcmp("/dev/video<a>", "/dev/video<b>") < 0
PathLess(a, b) ==
    LET da == Digits(a)
        db == Digits(b)
        m  == IF Len(da) < Len(db) THEN Len(da) ELSE Len(db)
        D  == {i \in 1..m : da[i] # db[i]}
    IN  IF D = {} THEN Len(da) < Len(db)
        ELSE LET k == CHOOSE i \in D : \A j \in D : i <= j IN da[k] < db[k]

\* struct v4l2_capability as filled by VIDIOC_QUERYCAP; ok = open and ioctl succeed
DevKinds ==
    { [ok |-> TRUE,  driver |-> "uvcvideo",    card |-> "HD Webcam",
       capabilities |-> {"VIDEO_CAPTURE", "DEVICE_CAPS"}, device_caps |-> {"VIDEO_CAPTURE"}],
      [ok |-> TRUE,  driver |-> "uvcvideo",    card |-> "HD Webcam",
       capabilities |-> {"VIDEO_CAPTURE_MPLANE"}, device_caps |-> {}],
      [ok |-> TRUE,  driver |-> "uvcvideo",    card |-> "HD Webcam",
       capabilities |-> {"VIDEO_CAPTURE", "DEVICE_CAPS"}, device_caps |-> {"META_CAPTURE"}],
      [ok |-> TRUE,  driver |-> "uvcvideo",    card |-> "HD Webcam",
       capabilities |-> {"VIDEO_OUTPUT", "DEVICE_CAPS"}, device_caps |-> {"VIDEO_OUTPUT"}],
      [ok |-> TRUE,  driver |-> "bcm2835-isp", card |-> "bcm2835-isp",
       capabilities |-> {"VIDEO_CAPTURE", "DEVICE_CAPS"}, device_caps |-> {"VIDEO_CAPTURE"}],
      [ok |-> TRUE,  driver |-> "uvcvideo",    card |-> "bcm2835-codec",
       capabilities |-> {"VIDEO_CAPTURE", "DEVICE_CAPS"}, device_caps |-> {"VIDEO_CAPTURE"}],
      [ok |-> TRUE,  driver |-> "unicam",      card |-> "unicam",
       capabilities |-> {"VIDEO_CAPTURE", "DEVICE_CAPS"}, device_caps |-> {"VIDEO_CAPTURE"}],
      [ok |-> FALSE, driver |-> "uvcvideo",    card |-> "HD Webcam",
       capabilities |-> {"VIDEO_CAPTURE", "DEVICE_CAPS"}, device_caps |-> {"VIDEO_CAPTURE"}] }

CaptureBits == {"VIDEO_CAPTURE", "VIDEO_CAPTURE_MPLANE"}

\* v4l2_querycap(): -1 when the node cannot be opened or queried
v4l2_querycap(d, node) == node \in DOMAIN d /\ d[node].ok

\* v4l2_supports_capture() without the driver test (any capture driver passes)
v4l2_supports_capture_any_driver(d, node) ==
    IF ~v4l2_querycap(d, node) THEN FALSE
    ELSE LET cap == d[node] IN
         IF \/ Strstr(cap.driver, "bcm2835") \/ Strstr(cap.card, "bcm2835")
         THEN FALSE
         ELSE IF "DEVICE_CAPS" \in cap.capabilities /\ cap.device_caps \cap CaptureBits # {}
         THEN TRUE
         ELSE cap.capabilities \cap CaptureBits # {}

v4l2_supports_capture(d, node) ==
    IF ~v4l2_querycap(d, node) THEN FALSE
    ELSE LET cap == d[node] IN
         IF \/ Strstr(cap.driver, "bcm2835") \/ Strstr(cap.card, "bcm2835")
            \/ Strstr(cap.driver, "bcm2835-codec") \/ Strstr(cap.card, "bcm2835-codec")
         THEN FALSE
         ELSE IF ~Strstr(cap.driver, "uvcvideo") THEN FALSE
         ELSE IF "DEVICE_CAPS" \in cap.capabilities /\ cap.device_caps \cap CaptureBits # {}
         THEN TRUE
         ELSE cap.capabilities \cap CaptureBits # {}

\* the sorted gl_pathv of glob("/dev/video*")
RECURSIVE GlobSorted(_)
GlobSorted(S) ==
    IF S = {} THEN <<>>
    ELSE LET lo == CHOOSE a \in S : \A b \in S \ {a} : PathLess(a, b)
         IN  <<lo>> \o GlobSorted(S \ {lo})

\* pick_usb_node() keeping the last accepted path of the glob (no early return)
pick_usb_node_last(d) ==
    LET g == GlobSorted(DOMAIN d)
        A == {i \in 1..Len(g) : v4l2_supports_capture(d, g[i])}
    IN  IF A = {} THEN NoNode
        ELSE g[CHOOSE i \in A : \A j \in A : i >= j]

\* pick_usb_node(): first accepted path of the glob, NoNode for -1
pick_usb_node(d) ==
    LET g == GlobSorted(DOMAIN d)
        A == {i \in 1..Len(g) : v4l2_supports_capture(d, g[i])}
    IN  IF A = {} THEN NoNode
        ELSE g[CHOOSE i \in A : \A j \in A : i <= j]

PixFmts == {"H264", "MJPG", "YUYV", "NV12"}

\* The argument is what VIDIOC_ENUM_FMT lists over both queues; a failed open()
\* of the node lists nothing and leaves the memset() zeros.

\* v4l2_enum_formats(): the three flags over both capture queues (all clear
\* when the node cannot be opened or lists nothing)
v4l2_enum_formats(listed) ==
    [h264 |-> "H264" \in listed, mjpg |-> "MJPG" \in listed, yuyv |-> "YUYV" \in listed]

(***************************************************************************)
(* detect_csi_available(): parse of the camera-listing report.             *)
(***************************************************************************)
RECURSIVE HasNonUsb(_, _)
HasNonUsb(buf, from) ==
    LET pn == Find(buf, "Index", from) IN
    IF pn = 0 THEN FALSE
    ELSE IF Find(buf, "usb@", pn) = 0 THEN TRUE
    ELSE LET nl == Find(buf, "\n", pn)
             line_end == IF nl = 0 THEN Len(buf) + 1 ELSE nl
         IN  HasNonUsb(buf, line_end)

\* detect_csi_available() without the test for the "Available cameras" header
detect_csi_available_any_output(cmd, buf) ==
    IF ~cmd THEN FALSE
    ELSE IF Strstr(buf, "usb@") THEN HasNonUsb(buf, 1)
    ELSE TRUE

detect_csi_available(cmd, buf) ==
    IF ~cmd THEN FALSE
    ELSE IF ~Strstr(buf, "Available cameras") THEN FALSE
    ELSE IF Strstr(buf, "usb@") THEN HasNonUsb(buf, 1)
    ELSE TRUE

Reports ==
    { "",
      "No cameras available!\n",
      "Available cameras\nIndex 0 : imx219 (i2c@1)\n",
      "Available cameras\nIndex 0 : webcam (usb@1)\n",
      "Available cameras\nIndex 0 : webcam (usb@1)\nIndex 1 : imx219 (i2c@1)\n",
      "Available cameras\nIndex 0 : imx219 (i2c@1)\nIndex 1 : webcam (usb@1)\n" }

(***************************************************************************)
(* Configurations and environments.                                        *)
(***************************************************************************)
SRC_AUTO == "auto"
SRC_CSI == "csi"
SRC_USBNODE == "usbnode"

ENC_AUTO == "auto"
ENC_SOFTWARE == "software"
ENC_HARDWARE == "hardware"

DEFAULT_CORNER == "top-left"

\* parse_cfg(): the defaults, then the source and overlay options of the command line
SourceCfg(m, n, o) ==
    [source_mode |-> m, source_node |-> n, no_overlay |-> o,
     width |-> 1280, height |-> 720, fps |-> 30, bitrate |-> 4000000,
     corner |-> DEFAULT_CORNER, encode_mode |-> ENC_AUTO]

Cfgs ==
    { SourceCfg(m, NoNode, o) : m \in {SRC_AUTO, SRC_CSI}, o \in BOOLEAN }
    \cup
    { SourceCfg(SRC_USBNODE, n, o) : n \in DevNums, o \in BOOLEAN }

DevConfigs(k) ==
    UNION { [S -> DevKinds] : S \in {T \in SUBSET DevNums : Cardinality(T) <= k} }

Children == {"prev", "cam"}

\* main()'s locals and the session before any step
InitLocals ==
    /\ use_csi = FALSE
    /\ usbnode = NoNode
    /\ die_msg = ""
    /\ exit_code = NoExit
    /\ g_ctx_set = FALSE
    /\ handlers = FALSE
    /\ running = 0
    /\ prev_pid = 0
    /\ cam_pid = 0
    /\ tmpdir = "none"
    /\ fifo = FALSE
    /\ stats = "none"
    /\ fifo_rd = FALSE
    /\ fifo_wr = {}
    /\ child = [c \in Children |-> [st |-> "none", how |-> "-", status |-> NoExit]]
    /\ sigpend = [c \in Children |-> FALSE]
    /\ kills = [c \in Children |-> 0]
    /\ intr = 0
    /\ eintr = FALSE
    /\ threads = "none"
    /\ st1 = 0
    /\ st2 = 0
    /\ usbfmt = [h264 |-> FALSE, mjpg |-> FALSE, yuyv |-> FALSE]
    /\ prev_argv = <<>>
    /\ cam_argv = <<>>
    /\ latest_fps = Zero
    /\ latest_bitrate = ""
    /\ mu = "none"
    /\ lr = [pc |-> "loop", buf |-> "", line |-> "", fps |-> FALSE, f |-> Zero,
             br |-> FALSE, b |-> "",
             got |-> "",     \* history: the bytes read() has returned so far
             ups |-> <<>>]   \* history: the stores made to the shared record
    /\ sw = [pc |-> "loop", cpu |-> Zero, mem |-> Zero, fps |-> Zero, br |-> ""]

\* main() with the command line parsed
InitProgram == pc = "check_ffmpeg" /\ InitLocals

\* die(): diagnostic and exit(1), nothing else
die(msg) ==
    /\ die_msg' = msg
    /\ exit_code' = 1
    /\ pc' = "exited"

(***************************************************************************)
(* main(): helper check and source selection.                              *)
(***************************************************************************)
main_check_ffmpeg ==
    /\ pc = "check_ffmpeg"
    /\ IF ~have_ffmpeg
       THEN die("ffmpeg not found")
       ELSE pc' = "decide_source" /\ UNCHANGED <<die_msg, exit_code>>
    /\ UNCHANGED <<envVars, threadVars, buildVars, use_csi, usbnode, g_ctx_set, handlers, running,
                   prev_pid, cam_pid, tmpdir, fifo, stats, fifo_rd, fifo_wr,
                   child, sigpend, kills, intr, eintr, threads, st1, st2>>

\* main()'s selection with the explicit modes falling through to the auto scan
main_decide_source_fallback ==
    /\ pc = "decide_source"
    /\ IF cfg.source_mode = SRC_CSI /\ detect_csi_available(have_cam_cmd, report)
       THEN /\ use_csi' = TRUE
            /\ pc' = "prepare_ctx"
            /\ UNCHANGED <<usbnode, die_msg, exit_code>>
       ELSE IF cfg.source_mode = SRC_USBNODE /\ v4l2_supports_capture(devs, cfg.source_node)
       THEN /\ usbnode' = cfg.source_node
            /\ pc' = "prepare_ctx"
            /\ UNCHANGED <<use_csi, die_msg, exit_code>>
       ELSE IF detect_csi_available(have_cam_cmd, report)
            THEN /\ use_csi' = TRUE
                 /\ pc' = "prepare_ctx"
                 /\ UNCHANGED <<usbnode, die_msg, exit_code>>
            ELSE IF pick_usb_node(devs) # NoNode
            THEN /\ usbnode' = pick_usb_node(devs)
                 /\ pc' = "prepare_ctx"
                 /\ UNCHANGED <<use_csi, die_msg, exit_code>>
            ELSE die("No supported camera found") /\ UNCHANGED <<use_csi, usbnode>>
    /\ usbfmt' = IF usbnode' # NoNode THEN v4l2_enum_formats(dev_fmts) ELSE usbfmt
    /\ UNCHANGED <<envVars, threadVars, prev_argv, cam_argv, g_ctx_set, handlers, running,
                   prev_pid, cam_pid, tmpdir, fifo, stats, fifo_rd, fifo_wr,
                   child, sigpend, kills, intr, eintr, threads, st1, st2>>

main_decide_source ==
    /\ pc = "decide_source"
    /\ IF cfg.source_mode = SRC_CSI
       THEN IF ~detect_csi_available(have_cam_cmd, report)
            THEN die("CSI camera not found") /\ UNCHANGED <<use_csi, usbnode>>
            ELSE /\ use_csi' = TRUE
                 /\ pc' = "prepare_ctx"
                 /\ UNCHANGED <<usbnode, die_msg, exit_code>>
       ELSE IF cfg.source_mode = SRC_USBNODE
       THEN IF ~v4l2_supports_capture(devs, cfg.source_node)
            THEN die("Invalid USB node") /\ UNCHANGED <<use_csi, usbnode>>
            ELSE /\ usbnode' = cfg.source_node
                 /\ pc' = "prepare_ctx"
                 /\ UNCHANGED <<use_csi, die_msg, exit_code>>
       ELSE IF detect_csi_available(have_cam_cmd, report)
            THEN /\ use_csi' = TRUE
                 /\ pc' = "prepare_ctx"
                 /\ UNCHANGED <<usbnode, die_msg, exit_code>>
            ELSE IF pick_usb_node(devs) # NoNode
            THEN /\ usbnode' = pick_usb_node(devs)
                 /\ pc' = "prepare_ctx"
                 /\ UNCHANGED <<use_csi, die_msg, exit_code>>
            ELSE die("No supported camera found") /\ UNCHANGED <<use_csi, usbnode>>
    /\ usbfmt' = IF usbnode' # NoNode THEN v4l2_enum_formats(dev_fmts) ELSE usbfmt
    /\ UNCHANGED <<envVars, threadVars, prev_argv, cam_argv, g_ctx_set, handlers, running,
                   prev_pid, cam_pid, tmpdir, fifo, stats, fifo_rd, fifo_wr,
                   child, sigpend, kills, intr, eintr, threads, st1, st2>>

(***************************************************************************)
(* main(): session setup.                                                  *)
(***************************************************************************)
main_prepare_ctx ==
    /\ pc = "prepare_ctx"
    /\ g_ctx_set' = TRUE
    /\ running' = 1
    /\ handlers' = TRUE
    /\ pc' = "mkdtemp"
    /\ UNCHANGED <<envVars, threadVars, buildVars, use_csi, usbnode, die_msg, exit_code,
                   prev_pid, cam_pid, tmpdir, fifo, stats, fifo_rd, fifo_wr,
                   child, sigpend, kills, intr, eintr, threads, st1, st2>>

\* main() forking the consumer right after mkdtemp(), before the pipe exists
main_mkdtemp_spawns_first ==
    /\ pc = "mkdtemp"
    /\ \E ok \in BOOLEAN :
         IF ok
         THEN /\ tmpdir' = "exists"
              /\ child' = [child EXCEPT !["prev"] =
                              [st |-> "alive", how |-> "-", status |-> NoExit]]
              /\ pc' = "mkfifo"
              /\ UNCHANGED <<die_msg, exit_code>>
         ELSE die("mkdtemp") /\ UNCHANGED <<tmpdir, child>>
    /\ UNCHANGED <<envVars, threadVars, buildVars, use_csi, usbnode, g_ctx_set, handlers, running,
                   prev_pid, cam_pid, fifo, stats, fifo_rd, fifo_wr,
                   sigpend, kills, intr, eintr, threads, st1, st2>>

main_mkdtemp ==
    /\ pc = "mkdtemp"
    /\ \E ok \in BOOLEAN :
         IF ok
         THEN tmpdir' = "exists" /\ pc' = "mkfifo" /\ UNCHANGED <<die_msg, exit_code>>
         ELSE die("mkdtemp") /\ UNCHANGED tmpdir
    /\ UNCHANGED <<envVars, threadVars, buildVars, use_csi, usbnode, g_ctx_set, handlers, running,
                   prev_pid, cam_pid, fifo, stats, fifo_rd, fifo_wr,
                   child, sigpend, kills, intr, eintr, threads, st1, st2>>

safe_mkfifo ==
    /\ pc = "mkfifo"
    /\ \E ok \in BOOLEAN :
         IF ok
         THEN fifo' = TRUE /\ pc' = "precreate_stats" /\ UNCHANGED <<die_msg, exit_code>>
         ELSE die("mkfifo") /\ UNCHANGED fifo
    /\ UNCHANGED <<envVars, threadVars, buildVars, use_csi, usbnode, g_ctx_set, handlers, running,
                   prev_pid, cam_pid, tmpdir, stats, fifo_rd, fifo_wr,
                   child, sigpend, kills, intr, eintr, threads, st1, st2>>

stats_placeholder == "FPS: 0.0\nRES: 0x0\nBitRate: 0\nCPU: 0%\nMEM: 0%\n"

main_precreate_stats ==
    /\ pc = "precreate_stats"
    /\ \E ok \in BOOLEAN : stats' = IF ok THEN stats_placeholder ELSE stats
    /\ pc' = "start_preview"
    /\ UNCHANGED <<envVars, threadVars, buildVars, use_csi, usbnode, die_msg, exit_code, g_ctx_set,
                   handlers, running, prev_pid, cam_pid, tmpdir, fifo,
                   fifo_rd, fifo_wr, child, sigpend, kills, intr, eintr,
                   threads, st1, st2>>

(***************************************************************************)
(* Pipeline builders: the argument vectors of the two children.            *)
(***************************************************************************)
DigitChars == "0123456789"

\* printf("%d")
RECURSIVE Itoa(_)
Itoa(n) ==
    IF n < 0 THEN "-" \o Itoa(0 - n)
    ELSE IF n < 10 THEN SubSeq(DigitChars, n + 1, n + 1)
    ELSE Itoa(n \div 10) \o SubSeq(DigitChars, (n % 10) + 1, (n % 10) + 1)

FifoPath == "/tmp/picamc.XXXXXX/video.h264"
StatsPath == "/tmp/picamc.XXXXXX/stats.txt"
DevPath(n) == "/dev/video" \o Itoa(n)

overlay_coords(corner) ==
    IF corner = "top-right" THEN [ox |-> "w-tw-10", oy |-> "10"]
    ELSE IF corner = "bottom-left" THEN [ox |-> "10", oy |-> "h-th-10"]
    ELSE IF corner = "bottom-right" THEN [ox |-> "w-tw-10", oy |-> "h-th-10"]
    ELSE [ox |-> "10", oy |-> "10"]

\* the corner start_preview() asks overlay_coords() for
preview_corner(c) == DEFAULT_CORNER

\* start_preview(): the drawtext filter and the consumer's argv
preview_drawtext(c) ==
    LET xy == overlay_coords(preview_corner(c)) IN
    "drawtext=fontfile=/usr/share/fonts/truetype/dejavu/DejaVuSans.ttf:"
    \o "textfile=" \o StatsPath \o ":reload=1:x=" \o xy.ox \o ":y=" \o xy.oy
    \o ":fontcolor=white:fontsize=28:"
    \o "box=1:boxcolor=0x000000AA:boxborderw=8:line_spacing=6"

preview_argv(c, csi) ==
    <<"ffmpeg", "-hide_banner", "-loglevel", "info", "-stats",
      "-fflags", "+nobuffer", "-flags", "+low_delay", "-reorder_queue_size", "0",
      "-thread_queue_size", "512", "-f", "h264", "-i", FifoPath,
      "-vf", preview_drawtext(c), "-an", "-f", "sdl",
      IF csi THEN "PiCam Preview (CSI)" ELSE "USB Camera Preview">>

\* main(): ENC_AUTO resolves to ENC_HARDWARE
resolve_encode(mode) == IF mode = ENC_AUTO THEN ENC_HARDWARE ELSE mode

\* start_usb_ffmpeg(): the encoder part of the argv with the copy path taken
\* only after the encode mode was looked at
usb_encoder_args_mode_first(fs, enc, br) ==
    IF enc = ENC_HARDWARE
    THEN <<"-pix_fmt", "nv12", "-c:v", "h264_v4l2m2m",
           "-b:v", br, "-maxrate", br, "-bufsize", br>>
    ELSE IF fs.h264
    THEN <<"-c:v", "copy">>
    ELSE <<"-c:v", "libx264", "-preset", "ultrafast", "-tune", "zerolatency",
           "-b:v", br, "-maxrate", br, "-bufsize", br>>

\* start_usb_ffmpeg(): the encoder part of the argv with the hardware path
\* missing its buffer size option
usb_encoder_args_no_bufsize(fs, enc, br) ==
    IF fs.h264
    THEN <<"-c:v", "copy">>
    ELSE IF enc = ENC_HARDWARE
    THEN <<"-pix_fmt", "nv12", "-c:v", "h264_v4l2m2m",
           "-b:v", br, "-maxrate", br>>
    ELSE <<"-c:v", "libx264", "-preset", "ultrafast", "-tune", "zerolatency",
           "-b:v", br, "-maxrate", br, "-bufsize", br>>

\* start_usb_ffmpeg(): the encoder part of the argv
usb_encoder_args(fs, enc, br) ==
    IF fs.h264
    THEN <<"-c:v", "copy">>
    ELSE IF enc = ENC_HARDWARE
    THEN <<"-pix_fmt", "nv12", "-c:v", "h264_v4l2m2m",
           "-b:v", br, "-maxrate", br, "-bufsize", br>>
    ELSE <<"-c:v", "libx264", "-preset", "ultrafast", "-tune", "zerolatency",
           "-b:v", br, "-maxrate", br, "-bufsize", br>>

usb_input_format(fs) ==
    IF fs.h264 THEN "h264"
    ELSE IF fs.mjpg THEN "mjpeg"
    ELSE IF fs.yuyv THEN "yuyv422"
    ELSE "mjpeg"

usb_ffmpeg_argv(c, node, fs, enc) ==
    <<"ffmpeg", "-hide_banner", "-loglevel", "error", "-f", "v4l2",
      "-input_format", usb_input_format(fs),
      "-video_size", Itoa(c.width) \o "x" \o Itoa(c.height),
      "-framerate", Itoa(c.fps), "-i", DevPath(node)>>
    \o usb_encoder_args(fs, enc, Itoa(c.bitrate))
    \o <<"-f", "h264", FifoPath>>

\* start_csi_camera(): the capture helper's argv (output on stdout, the pipe)
csi_camera_argv(c) ==
    <<"rpicam-vid", "--inline", "--codec", "h264", "--timeout", "0",
      "--width", Itoa(c.width), "--height", Itoa(c.height),
      "--framerate", Itoa(c.fps), "--bitrate", Itoa(c.bitrate), "-o", "-">>

(***************************************************************************)
(* scanf conversions on text.                                              *)
(***************************************************************************)
WordBits == 16                 \* width kept for unsigned long long
Mod == 2 ^ WordBits

CharAt(s, i) == IF i >= 1 /\ i <= Len(s) THEN SubSeq(s, i, i) ELSE ""
IsSpace(c) == c \in {" ", "\t", "\n", "\r"}
IsDigit(c) == c # "" /\ Find(DigitChars, c, 1) # 0
DigitVal(c) == Find(DigitChars, c, 1) - 1

RECURSIVE SkipSpace(_, _)
SkipSpace(s, i) == IF IsSpace(CharAt(s, i)) THEN SkipSpace(s, i + 1) ELSE i

\* the digits from position i on: <<value, position after them>>
RECURSIVE ScanDigits(_, _, _)
ScanDigits(s, i, acc) ==
    IF IsDigit(CharAt(s, i))
    THEN ScanDigits(s, i + 1, (acc * 10 + DigitVal(CharAt(s, i))) % Mod)
    ELSE <<acc, i>>

\* one %llu (or %ld of a value in range): white space, an optional sign, digits
ScanULL(s, from) ==
    LET i == SkipSpace(s, from)
        neg == CharAt(s, i) = "-"
        j == IF CharAt(s, i) \in {"-", "+"} THEN i + 1 ELSE i
        r == ScanDigits(s, j, 0)
    IN  IF ~IsDigit(CharAt(s, j)) THEN [ok |-> FALSE, val |-> 0, next |-> from]
        ELSE [ok |-> TRUE, val |-> IF neg THEN (Mod - r[1]) % Mod ELSE r[1], next |-> r[2]]

\* k conversions %llu in a row: the values converted before the first failure
RECURSIVE ScanULLs(_, _, _)
ScanULLs(s, from, k) ==
    IF k = 0 THEN <<>>
    ELSE LET r == ScanULL(s, from) IN
         IF r.ok THEN <<r.val>> \o ScanULLs(s, r.next, k - 1) ELSE <<>>

\* strrchr(s, c) as an index, 0 for NULL
Strrchr(s, c) ==
    LET S == {i \in 1..Len(s) : SubSeq(s, i, i) = c}
    IN  IF S = {} THEN 0 ELSE CHOOSE i \in S : \A j \in S : j <= i

(***************************************************************************)
(* /proc as the kernel prints it.  An entry of the model holds the         *)
(* counters; the text is what fopen()/fread() of the file returns.         *)
(***************************************************************************)
NoFile == [present |-> FALSE, text |-> ""]
File(t) == [present |-> TRUE, text |-> t]

\* /proc/stat, first line: "cpu  user nice system idle iowait irq softirq ..."
ProcStat(e) ==
    IF ~e.present THEN NoFile
    ELSE File("cpu  " \o Itoa(e.user) \o " 0 " \o Itoa(e.sys) \o " " \o Itoa(e.idle)
              \o " 0 0 0 0 0 0\n")

\* /proc/<pid>/stat: "pid (comm) state ppid pgrp session tty_nr tpgid flags
\* minflt cminflt majflt cmajflt utime stime cutime cstime ..."
ProcPidStat(pid, e) ==
    IF ~e.present THEN NoFile
    ELSE File(Itoa(pid) \o " (ffmpeg) S 1 " \o Itoa(pid) \o " " \o Itoa(pid)
              \o " 0 -1 4194304 90 0 0 0 " \o Itoa(e.utime) \o " " \o Itoa(e.stime)
              \o " 0 0 20 0 1 0 100 4096 384\n")

\* /proc/<pid>/status
ProcPidStatus(e) ==
    IF ~e.present THEN NoFile
    ELSE File("Name:\tffmpeg\nVmRSS:\t" \o Itoa(e.rss_kb) \o " kB\n")

\* read_proc_stat_total(): ret and the seven counters of the first line (the
\* kernel prints at least these seven)
read_proc_stat_total(f) ==
    LET v == IF StartsWith(f.text, "cpu") THEN ScanULLs(f.text, 4, 7) ELSE <<>>
        field(k) == IF k <= Len(v) THEN v[k] ELSE 0
    IN  IF ~f.present \/ f.text = "" THEN [ret |-> -1]
        ELSE [ret |-> 0, user |-> field(1), nice |-> field(2), sys |-> field(3),
              idle |-> field(4), iow |-> field(5), irq |-> field(6), sirq |-> field(7)]

\* the VmRSS: line of /proc/<pid>/status, 0 without one
RECURSIVE VmRSS(_)
VmRSS(text) ==
    LET nl == Find(text, "\n", 1)
        first == IF nl = 0 THEN text ELSE SubSeq(text, 1, nl)
    IN  IF text = "" THEN 0
        ELSE IF StartsWith(first, "VmRSS:") THEN ScanULL(first, 7).val
        ELSE IF nl = 0 THEN 0
        ELSE VmRSS(SubSeq(text, nl + 1, Len(text)))

\* where read_proc_pid_stat() starts its twelve conversions: rp + 2
stat_fields_start(rp) == rp + 2

\* read_proc_pid_stat(): ret, and utime, stime, rss_kb when ret = 0
read_proc_pid_stat(f, status) ==
    LET rp == Strrchr(f.text, ")")
        v == ScanULLs(f.text, stat_fields_start(rp), 12)
    IN  IF ~f.present THEN [ret |-> -1]
        ELSE IF rp = 0 THEN [ret |-> -1]
        ELSE IF Len(v) < 12 THEN [ret |-> -1]
        ELSE [ret |-> 0, utime |-> v[11], stime |-> v[12],
              rss_kb |-> IF status.present THEN VmRSS(status.text) ELSE 0]

cpu_total(t) == (t.user + t.nice + t.sys + t.idle + t.iow + t.irq + t.sirq) % Mod

\* ticks of one pid at one read: the arrays start as zeros and a failed read
\* leaves them so
pid_ticks(pid, snap) ==
    LET r == IF pid > 0 THEN read_proc_pid_stat(ProcPidStat(pid, snap.pid[pid]),
                                                ProcPidStatus(snap.pid[pid]))
             ELSE [ret |-> -1]
    IN  IF r.ret = 0 THEN [u |-> r.utime, s |-> r.stime] ELSE [u |-> 0, s |-> 0]

RECURSIVE tick_sum(_, _, _, _)
tick_sum(pids, a, b, i) ==
    IF i > Len(pids) THEN 0
    ELSE LET x == pid_ticks(pids[i], a)
             y == pid_ticks(pids[i], b)
             d == (((y.u - x.u) % Mod) + ((y.s - x.s) % Mod)) % Mod
         IN  (d + tick_sum(pids, a, b, i + 1)) % Mod

\* cpu_percent_for_pids() without the test of tot_delta
cpu_percent_for_pids_unguarded(pids, a, b) ==
    LET t0 == read_proc_stat_total(ProcStat(a.cpu))
        t1 == read_proc_stat_total(ProcStat(b.cpu))
    IN  IF t0.ret < 0 \/ t1.ret < 0 THEN Zero
        ELSE Ratio(100 * tick_sum(pids, a, b, 1), (cpu_total(t1) - cpu_total(t0)) % Mod)

\* cpu_percent_for_pids(): a is /proc at t0, b at t1
cpu_percent_for_pids(pids, a, b) ==
    LET t0 == read_proc_stat_total(ProcStat(a.cpu))
        t1 == read_proc_stat_total(ProcStat(b.cpu))
        tot_delta == (cpu_total(t1) - cpu_total(t0)) % Mod
    IN  IF t0.ret < 0 THEN Zero
        ELSE IF t1.ret < 0 THEN Zero
        ELSE IF tot_delta <= 0 THEN Zero
        ELSE Ratio(100 * tick_sum(pids, a, b, 1), tot_delta)

RECURSIVE rss_sum_kb(_, _, _)
rss_sum_kb(pids, snap, i) ==
    IF i > Len(pids) THEN 0
    ELSE LET r == IF pids[i] > 0
                  THEN read_proc_pid_stat(ProcPidStat(pids[i], snap.pid[pids[i]]),
                                          ProcPidStatus(snap.pid[pids[i]]))
                  ELSE [ret |-> -1]
         IN  (IF r.ret = 0 THEN r.rss_kb ELSE 0) + rss_sum_kb(pids, snap, i + 1)

\* rss_mb_for_pids()
rss_mb_for_pids(pids, snap) == Ratio(rss_sum_kb(pids, snap, 1), 1024)

(***************************************************************************)
(* /proc contents: counters that stand, advance or fall back between the   *)
(* two reads, and entries that are missing at a read.                      *)
(***************************************************************************)
MaxTicks == 1

ProcPids == {1, 2}

CpuEntries ==
    {[present |-> FALSE, user |-> 0, sys |-> 0, idle |-> 0]}
    \cup {[present |-> TRUE, user |-> u, sys |-> 1, idle |-> 2] : u \in 0..MaxTicks}

PidEntries ==
    {[present |-> FALSE, utime |-> 0, stime |-> 0, rss_kb |-> 0]}
    \cup {[present |-> TRUE, utime |-> u, stime |-> 1, rss_kb |-> 1536] : u \in 0..MaxTicks}

ProcSnaps == [cpu : CpuEntries, pid : [ProcPids -> PidEntries]]

\* /proc at t0, at t1 and at the read of rss_mb_for_pids(), by when further
\* entries may be gone
Procs ==
    { [t0 |-> a, t1 |-> b,
       rss |-> [b EXCEPT !.pid = [i \in ProcPids |->
                                    IF i \in gone THEN [present |-> FALSE, utime |-> 0,
                                                        stime |-> 0, rss_kb |-> 0]
                                    ELSE b.pid[i]]]] :
        a \in ProcSnaps, b \in ProcSnaps, gone \in SUBSET ProcPids }

\* an idle machine: nothing missing, no counter moving
QuietProc ==
    LET q == [cpu |-> [present |-> TRUE, user |-> 0, sys |-> 1, idle |-> 2],
              pid |-> [i \in ProcPids |->
                         [present |-> TRUE, utime |-> 0, stime |-> 1, rss_kb |-> 1536]]]
    IN  [t0 |-> q, t1 |-> q, rss |-> q]

(***************************************************************************)
(* spawn_child(): pipe(), fork(); the caller records the pid afterwards.   *)
(***************************************************************************)
Alive(c) == [st |-> "alive", how |-> "-", status |-> NoExit]

start_preview ==
    /\ pc = "start_preview"
    /\ \E r \in {"ok", "pipe", "fork"} :
         IF r = "ok"
         THEN /\ child' = [child EXCEPT !["prev"] = Alive("prev")]
              /\ pc' = "record_prev"
              /\ UNCHANGED <<die_msg, exit_code>>
         ELSE die(r) /\ UNCHANGED child
    /\ prev_argv' = preview_argv(cfg, use_csi)
    /\ UNCHANGED <<envVars, threadVars, usbfmt, cam_argv, use_csi, usbnode, g_ctx_set, handlers,
                   running, prev_pid, cam_pid, tmpdir, fifo, stats, fifo_rd, fifo_wr,
                   sigpend, kills, intr, eintr, threads, st1, st2>>

\* main() creating the two threads as soon as the consumer's pid is recorded
start_preview_record_starts_threads ==
    /\ pc = "record_prev"
    /\ prev_pid' = 1
    /\ threads' = IF ~cfg.no_overlay THEN "started" ELSE threads
    /\ pc' = "start_cam"
    /\ UNCHANGED <<envVars, threadVars, buildVars, use_csi, usbnode, die_msg, exit_code, g_ctx_set,
                   handlers, running, cam_pid, tmpdir, fifo, stats, fifo_rd,
                   fifo_wr, child, sigpend, kills, intr, eintr, st1, st2>>

start_preview_record ==
    /\ pc = "record_prev"
    /\ prev_pid' = 1
    /\ pc' = "start_cam"
    /\ UNCHANGED <<envVars, threadVars, buildVars, use_csi, usbnode, die_msg, exit_code, g_ctx_set,
                   handlers, running, cam_pid, tmpdir, fifo, stats, fifo_rd,
                   fifo_wr, child, sigpend, kills, intr, eintr, threads, st1, st2>>

\* start_csi_camera() up to open(fifo_path, O_WRONLY), which blocks until the
\* pipe has a reader and fails with EINTR when a handled signal interrupts it
start_csi_camera_open ==
    /\ pc = "start_cam"
    /\ use_csi
    /\ IF ~have_cam_cmd
       THEN die("rpicam-vid/libcamera-vid required for CSI") /\ UNCHANGED <<eintr, fifo_wr>>
       ELSE IF eintr
       THEN die("open fifo for write") /\ eintr' = FALSE /\ UNCHANGED fifo_wr
       ELSE /\ fifo_rd
            /\ fifo_wr' = fifo_wr \cup {"main"}
            /\ pc' = "fork_csi"
            /\ UNCHANGED <<die_msg, exit_code, eintr>>
    /\ UNCHANGED <<envVars, threadVars, buildVars, use_csi, usbnode, g_ctx_set, handlers, running,
                   prev_pid, cam_pid, tmpdir, fifo, stats, fifo_rd,
                   child, sigpend, kills, intr, threads, st1, st2>>

\* start_csi_camera(): spawn_child(argv, -1, fifo_fd, 0) up to its fork(); the
\* child inherits fifo_fd and makes it its standard output
start_csi_camera_fork ==
    /\ pc = "fork_csi"
    /\ \E ok \in BOOLEAN :
         IF ok
         THEN /\ child' = [child EXCEPT !["cam"] = Alive("cam")]
              /\ fifo_wr' = fifo_wr \cup {"cam"}
              /\ pc' = "close_fifo_fd"
              /\ UNCHANGED <<die_msg, exit_code>>
         ELSE die("fork") /\ fifo_wr' = fifo_wr \ {"main"} /\ UNCHANGED child
    /\ cam_argv' = csi_camera_argv(cfg)
    /\ UNCHANGED <<envVars, threadVars, usbfmt, prev_argv, use_csi, usbnode, g_ctx_set, handlers, running,
                   prev_pid, cam_pid, tmpdir, fifo, stats, fifo_rd,
                   sigpend, kills, intr, eintr, threads, st1, st2>>

\* spawn_child() in the parent: close(stdout_fd), the supervisor's own descriptor
spawn_child_close_stdout ==
    /\ pc = "close_fifo_fd"
    /\ fifo_wr' = fifo_wr \ {"main"}
    /\ pc' = "record_cam"
    /\ UNCHANGED <<envVars, threadVars, buildVars, use_csi, usbnode, die_msg, exit_code, g_ctx_set,
                   handlers, running, prev_pid, cam_pid, tmpdir, fifo, stats, fifo_rd,
                   child, sigpend, kills, intr, eintr, threads, st1, st2>>

start_usb_ffmpeg ==
    /\ pc = "start_cam"
    /\ ~use_csi
    /\ usbnode' = IF usbnode = NoNode THEN cfg.source_node ELSE usbnode
    /\ \E ok \in BOOLEAN :
         IF ok
         THEN /\ child' = [child EXCEPT !["cam"] = Alive("cam")]
              /\ pc' = "record_cam"
              /\ UNCHANGED <<die_msg, exit_code>>
         ELSE die("fork") /\ UNCHANGED child
    /\ cam_argv' = usb_ffmpeg_argv(cfg, usbnode', usbfmt, resolve_encode(cfg.encode_mode))
    /\ UNCHANGED <<envVars, threadVars, usbfmt, prev_argv, use_csi, g_ctx_set, handlers, running,
                   prev_pid, cam_pid, tmpdir, fifo, stats, fifo_rd, fifo_wr,
                   sigpend, kills, intr, eintr, threads, st1, st2>>

start_camera_record ==
    /\ pc = "record_cam"
    /\ cam_pid' = 2
    /\ pc' = "create_threads"
    /\ UNCHANGED <<envVars, threadVars, buildVars, use_csi, usbnode, die_msg, exit_code, g_ctx_set,
                   handlers, running, prev_pid, tmpdir, fifo, stats, fifo_rd,
                   fifo_wr, child, sigpend, kills, intr, eintr, threads, st1, st2>>

main_create_threads ==
    /\ pc = "create_threads"
    /\ threads' = IF ~cfg.no_overlay THEN "started" ELSE threads
    /\ pc' = "wait_cam"
    /\ UNCHANGED <<envVars, threadVars, buildVars, use_csi, usbnode, die_msg, exit_code, g_ctx_set,
                   handlers, running, prev_pid, cam_pid, tmpdir, fifo, stats,
                   fifo_rd, fifo_wr, child, sigpend, kills, intr, eintr, st1, st2>>

(***************************************************************************)
(* main(): the two waits, thread teardown, cleanup.                        *)
(***************************************************************************)
Reaped(c) == [child[c] EXCEPT !.st = "reaped"]

\* waitpid(ctx.cam_pid, &st1, 0): returns the status of the exited child, or -1
\* (EINTR) when a handled signal interrupted it (sa_flags has no SA_RESTART)
main_wait_cam ==
    /\ pc = "wait_cam"
    /\ IF cam_pid > 0
       THEN IF eintr
            THEN eintr' = FALSE /\ UNCHANGED <<st1, child>>
            ELSE /\ child["cam"].st = "zombie"
                 /\ st1' = child["cam"].status
                 /\ child' = [child EXCEPT !["cam"] = Reaped("cam")]
                 /\ UNCHANGED eintr
       ELSE UNCHANGED <<st1, child, eintr>>
    /\ pc' = "wait_prev"
    /\ UNCHANGED <<envVars, threadVars, buildVars, use_csi, usbnode, die_msg, exit_code, g_ctx_set,
                   handlers, running, prev_pid, cam_pid, tmpdir, fifo, stats,
                   fifo_rd, fifo_wr, sigpend, kills, intr, threads, st2>>

main_wait_prev ==
    /\ pc = "wait_prev"
    /\ IF prev_pid > 0
       THEN IF eintr
            THEN eintr' = FALSE /\ UNCHANGED <<st2, child>>
            ELSE /\ child["prev"].st = "zombie"
                 /\ st2' = child["prev"].status
                 /\ child' = [child EXCEPT !["prev"] = Reaped("prev")]
                 /\ UNCHANGED eintr
       ELSE UNCHANGED <<st2, child, eintr>>
    /\ pc' = "stop_threads"
    /\ UNCHANGED <<envVars, threadVars, buildVars, use_csi, usbnode, die_msg, exit_code, g_ctx_set,
                   handlers, running, prev_pid, cam_pid, tmpdir, fifo, stats,
                   fifo_rd, fifo_wr, sigpend, kills, intr, threads, st1>>

\* ctx.running = 0 after the two waits
main_stop_threads ==
    /\ pc = "stop_threads"
    /\ running' = 0
    /\ pc' = IF threads = "started" THEN "join_threads" ELSE "cleanup"
    /\ UNCHANGED <<envVars, threadVars, buildVars, use_csi, usbnode, die_msg, exit_code, g_ctx_set,
                   handlers, prev_pid, cam_pid, tmpdir, fifo, stats, fifo_rd,
                   fifo_wr, child, sigpend, kills, intr, eintr, threads, st1, st2>>

\* where a thread with a cancellation request pending ends: returned already,
\* or inside a call that is a cancellation point (read, usleep, the /proc
\* reads, fopen, fclose, sleep), or at the head of its loop, from where it
\* goes into such a call or returns without touching anything shared; the
\* lock, copy, unlock sequences and the line parse hold no cancellation point
Cancellable(t) == t.pc \in {"done", "loop", "read", "cpu", "mem", "fopen", "fclose", "sleep"}

\* pthread_cancel() and pthread_join() of both threads: the joins return when
\* each thread has acted on its cancellation request or has returned
main_join_threads ==
    /\ pc = "join_threads"
    /\ Cancellable(lr) /\ Cancellable(sw)
    /\ threads' = "joined"
    /\ pc' = "cleanup"
    /\ UNCHANGED <<envVars, threadVars, buildVars, use_csi, usbnode, die_msg, exit_code, g_ctx_set,
                   handlers, running, prev_pid, cam_pid, tmpdir, fifo, stats, fifo_rd,
                   fifo_wr, child, sigpend, kills, intr, eintr, st1, st2>>

\* exit status main() returns after the cleanup
main_return == 0

\* ensure_dir_remove(ctx.tmpdir); return 0;
main_cleanup ==
    /\ pc = "cleanup"
    /\ tmpdir' = "removed"
    /\ fifo' = FALSE
    /\ stats' = "none"
    /\ exit_code' = main_return
    /\ pc' = "exited"
    /\ UNCHANGED <<envVars, threadVars, buildVars, use_csi, usbnode, die_msg, g_ctx_set, handlers,
                   running, prev_pid, cam_pid, fifo_rd, fifo_wr, child, sigpend,
                   kills, intr, eintr, threads, st1, st2>>

(***************************************************************************)
(* The SIGINT/SIGTERM handler.                                             *)
(***************************************************************************)
PidOf(c) == IF c = "prev" THEN prev_pid ELSE cam_pid

\* the main thread is inside a blocking call that a signal interrupts
Blocked ==
    \/ pc = "wait_cam" /\ cam_pid > 0 /\ child["cam"].st = "alive"
    \/ pc = "wait_prev" /\ prev_pid > 0 /\ child["prev"].st = "alive"
    \/ pc = "start_cam" /\ use_csi /\ have_cam_cmd /\ ~fifo_rd

\* a handler that also does the cleanup itself: rm -rf of the directory, exit
terminate_children_cleans ==
    /\ handlers
    /\ pc # "exited"
    /\ intr < MaxInterrupts
    /\ intr' = intr + 1
    /\ running' = 0
    /\ kills' = [c \in Children |-> IF PidOf(c) > 0 THEN kills[c] + 1 ELSE kills[c]]
    /\ sigpend' = [c \in Children |->
                     IF PidOf(c) > 0 /\ child[c].st = "alive" THEN TRUE ELSE sigpend[c]]
    /\ tmpdir' = IF tmpdir = "exists" THEN "removed" ELSE tmpdir
    /\ fifo' = FALSE
    /\ stats' = "none"
    /\ exit_code' = 0
    /\ pc' = "exited"
    /\ UNCHANGED <<envVars, threadVars, buildVars, use_csi, usbnode, die_msg, g_ctx_set, handlers,
                   prev_pid, cam_pid, fifo_rd, fifo_wr, child, eintr,
                   threads, st1, st2>>

terminate_children ==
    /\ handlers
    /\ pc # "exited"
    /\ intr < MaxInterrupts
    /\ intr' = intr + 1
    /\ IF ~g_ctx_set
       THEN /\ exit_code' = 0
            /\ pc' = "exited"
            /\ UNCHANGED <<running, kills, sigpend, eintr>>
       ELSE /\ running' = 0
            /\ kills' = [c \in Children |-> IF PidOf(c) > 0 THEN kills[c] + 1 ELSE kills[c]]
            /\ sigpend' = [c \in Children |->
                             IF PidOf(c) > 0 /\ child[c].st = "alive" THEN TRUE ELSE sigpend[c]]
            /\ \E e \in (IF Blocked THEN {TRUE, eintr} ELSE {eintr}) : eintr' = e
            /\ UNCHANGED <<exit_code, pc>>
    /\ UNCHANGED <<envVars, threadVars, buildVars, use_csi, usbnode, die_msg, g_ctx_set, handlers,
                   prev_pid, cam_pid, tmpdir, fifo, stats, fifo_rd, fifo_wr,
                   child, threads, st1, st2>>

(***************************************************************************)
(* The two overlay threads.                                                *)
(***************************************************************************)
\* the thread exists: created, not yet cancelled and joined, process not gone
ThreadsLive == threads = "started" /\ pc # "exited"

(***************************************************************************)
(* ffmpeg_log_reader(): the progress-log parser thread.                    *)
(***************************************************************************)
BufSize == 4096     \* sizeof(buf)
LineMax == 8191     \* sizeof(line) - 1

\* sscanf("%lf") of decimal text: white space, an optional sign, digits with
\* an optional fraction (the progress lines carry no exponent, inf or nan)
RECURSIVE ScanFraction(_, _, _, _)
ScanFraction(s, i, n, d) ==
    IF IsDigit(CharAt(s, i))
    THEN ScanFraction(s, i + 1, n * 10 + DigitVal(CharAt(s, i)), d * 10)
    ELSE Ratio(n, d)

RECURSIVE ScanInteger(_, _, _)
ScanInteger(s, i, n) ==
    IF IsDigit(CharAt(s, i))
    THEN ScanInteger(s, i + 1, n * 10 + DigitVal(CharAt(s, i)))
    ELSE <<n, i>>

ScanLf(s, from) ==
    LET i == SkipSpace(s, from)
        neg == CharAt(s, i) = "-"
        j == IF CharAt(s, i) \in {"-", "+"} THEN i + 1 ELSE i
        w == ScanInteger(s, j, 0)
        dot == CharAt(s, w[2]) = "."
        frac == dot /\ IsDigit(CharAt(s, w[2] + 1))
        r == IF frac THEN ScanFraction(s, w[2] + 1, w[1], 1) ELSE Ratio(w[1], 1)
    IN  IF ~IsDigit(CharAt(s, j)) /\ ~(dot /\ frac) THEN [ok |-> FALSE, val |-> Zero]
        ELSE [ok |-> TRUE, val |-> IF neg THEN Ratio(0 - r.n, r.d) ELSE r]

\* sscanf("%63s"): white space, then up to 63 characters that are not
RECURSIVE ScanWord(_, _, _)
ScanWord(s, i, k) ==
    IF k = 0 \/ CharAt(s, i) = "" \/ IsSpace(CharAt(s, i)) THEN ""
    ELSE CharAt(s, i) \o ScanWord(s, i + 1, k - 1)

\* the parse of a completed line with one test for both fields
progress_fields_joint(line) ==
    LET fps == Find(line, "fps=", 1)
        br == Find(line, "bitrate=", 1)
    IN  [fps |-> fps # 0 \/ br # 0,
         f |-> IF fps # 0 THEN ScanLf(line, fps + 4).val ELSE Zero,
         br |-> fps # 0 \/ br # 0,
         b |-> IF br # 0 THEN ScanWord(line, SkipSpace(line, br + 8), 63) ELSE ""]

\* the parse of a completed line: which fields it has and their values (f is
\* 0 and b is empty when the conversion fails)
progress_fields(line) ==
    LET fps == Find(line, "fps=", 1)
        br == Find(line, "bitrate=", 1)
    IN  [fps |-> fps # 0,
         f |-> IF fps # 0 THEN ScanLf(line, fps + 4).val ELSE Zero,
         br |-> br # 0,
         b |-> IF br # 0 THEN ScanWord(line, SkipSpace(line, br + 8), 63) ELSE ""]

\* index of the first '\r' or '\n' of buf, 0 without one
FirstTerminator(buf) ==
    LET S == {i \in 1..Len(buf) : SubSeq(buf, i, i) \in {"\r", "\n"}}
    IN  IF S = {} THEN 0 ELSE CHOOSE i \in S : \A j \in S : i <= j

\* line[len++] = c while len < sizeof(line) - 1
AppendLine(line, chars) ==
    IF Len(line) + Len(chars) <= LineMax THEN line \o chars
    ELSE line \o SubSeq(chars, 1, LineMax - Len(line))

Min(a, b) == IF a < b THEN a ELSE b

\* a reader loop that does not look at the flag: while (1)
log_reader_loop_forever ==
    /\ ThreadsLive
    /\ lr.pc = "loop"
    /\ lr' = [lr EXCEPT !.pc = "read"]
    /\ UNCHANGED <<envVars, buildVars, proc, stream, latest_fps, latest_bitrate, mu, sw,
                   pc, use_csi, usbnode, die_msg, exit_code, g_ctx_set, handlers,
                   running, prev_pid, cam_pid, tmpdir, fifo, stats, fifo_rd, fifo_wr,
                   child, sigpend, kills, intr, eintr, threads, st1, st2>>

log_reader_loop ==
    /\ ThreadsLive
    /\ lr.pc = "loop"
    /\ lr' = [lr EXCEPT !.pc = IF running # 0 THEN "read" ELSE "done"]
    /\ UNCHANGED <<envVars, buildVars, proc, stream, latest_fps, latest_bitrate, mu, sw,
                   pc, use_csi, usbnode, die_msg, exit_code, g_ctx_set, handlers,
                   running, prev_pid, cam_pid, tmpdir, fifo, stats, fifo_rd, fifo_wr,
                   child, sigpend, kills, intr, eintr, threads, st1, st2>>

\* read(prev_stderr_fd, buf, sizeof(buf)) on the non-blocking pipe: n bytes, or
\* nothing (n <= 0), then usleep() and the next turn of the loop
log_reader_read ==
    /\ ThreadsLive
    /\ lr.pc = "read"
    /\ \E n \in 0..Min(Len(stream), BufSize) :
         /\ stream' = SubSeq(stream, n + 1, Len(stream))
         /\ lr' = [lr EXCEPT !.pc = IF n = 0 THEN "loop" ELSE "scan",
                             !.buf = SubSeq(stream, 1, n),
                             !.got = lr.got \o SubSeq(stream, 1, n)]
    /\ UNCHANGED <<envVars, buildVars, proc, latest_fps, latest_bitrate, mu, sw,
                   pc, use_csi, usbnode, die_msg, exit_code, g_ctx_set, handlers,
                   running, prev_pid, cam_pid, tmpdir, fifo, stats, fifo_rd, fifo_wr,
                   child, sigpend, kills, intr, eintr, threads, st1, st2>>

\* a reader whose len is a local of the loop body: what a read leaves of an
\* unfinished line is gone at the next read
log_reader_scan_len_per_read ==
    /\ ThreadsLive
    /\ lr.pc = "scan"
    /\ LET k == FirstTerminator(lr.buf)
           full == AppendLine(lr.line, SubSeq(lr.buf, 1, k - 1))
           p == progress_fields(full)
       IN  IF k = 0
           THEN lr' = [lr EXCEPT !.pc = "loop", !.buf = "",
                                 !.line = ""]
           ELSE lr' = [pc |-> IF p.fps THEN "lock_fps" ELSE IF p.br THEN "lock_br" ELSE "scan",
                       buf |-> SubSeq(lr.buf, k + 1, Len(lr.buf)),
                       line |-> IF p.fps \/ p.br THEN full ELSE "",
                       fps |-> p.fps, f |-> p.f, br |-> p.br, b |-> p.b,
                       got |-> lr.got, ups |-> lr.ups]
    /\ UNCHANGED <<envVars, buildVars, proc, stream, latest_fps, latest_bitrate, mu, sw,
                   pc, use_csi, usbnode, die_msg, exit_code, g_ctx_set, handlers,
                   running, prev_pid, cam_pid, tmpdir, fifo, stats, fifo_rd, fifo_wr,
                   child, sigpend, kills, intr, eintr, threads, st1, st2>>

\* the for loop up to and including the next terminator of buf, or to the end
\* of buf
log_reader_scan ==
    /\ ThreadsLive
    /\ lr.pc = "scan"
    /\ LET k == FirstTerminator(lr.buf)
           full == AppendLine(lr.line, SubSeq(lr.buf, 1, k - 1))
           p == progress_fields(full)
       IN  IF k = 0
           THEN lr' = [lr EXCEPT !.pc = "loop", !.buf = "",
                                 !.line = AppendLine(lr.line, lr.buf)]
           ELSE lr' = [pc |-> IF p.fps THEN "lock_fps" ELSE IF p.br THEN "lock_br" ELSE "scan",
                       buf |-> SubSeq(lr.buf, k + 1, Len(lr.buf)),
                       line |-> IF p.fps \/ p.br THEN full ELSE "",
                       fps |-> p.fps, f |-> p.f, br |-> p.br, b |-> p.b,
                       got |-> lr.got, ups |-> lr.ups]
    /\ UNCHANGED <<envVars, buildVars, proc, stream, latest_fps, latest_bitrate, mu, sw,
                   pc, use_csi, usbnode, die_msg, exit_code, g_ctx_set, handlers,
                   running, prev_pid, cam_pid, tmpdir, fifo, stats, fifo_rd, fifo_wr,
                   child, sigpend, kills, intr, eintr, threads, st1, st2>>

log_reader_lock_fps ==
    /\ ThreadsLive
    /\ lr.pc = "lock_fps"
    /\ mu = "none"
    /\ mu' = "lr"
    /\ lr' = [lr EXCEPT !.pc = "set_fps"]
    /\ UNCHANGED <<envVars, buildVars, proc, stream, latest_fps, latest_bitrate, sw,
                   pc, use_csi, usbnode, die_msg, exit_code, g_ctx_set, handlers,
                   running, prev_pid, cam_pid, tmpdir, fifo, stats, fifo_rd, fifo_wr,
                   child, sigpend, kills, intr, eintr, threads, st1, st2>>

log_reader_set_fps ==
    /\ ThreadsLive
    /\ lr.pc = "set_fps"
    /\ latest_fps' = lr.f
    /\ lr' = [lr EXCEPT !.pc = "unlock_fps", !.ups = Append(lr.ups, <<"fps", lr.f>>)]
    /\ UNCHANGED <<envVars, buildVars, proc, stream, latest_bitrate, mu, sw,
                   pc, use_csi, usbnode, die_msg, exit_code, g_ctx_set, handlers,
                   running, prev_pid, cam_pid, tmpdir, fifo, stats, fifo_rd, fifo_wr,
                   child, sigpend, kills, intr, eintr, threads, st1, st2>>

log_reader_unlock_fps ==
    /\ ThreadsLive
    /\ lr.pc = "unlock_fps"
    /\ mu' = "none"
    /\ lr' = [lr EXCEPT !.pc = IF lr.br THEN "lock_br" ELSE "scan",
                        !.line = IF lr.br THEN lr.line ELSE ""]
    /\ UNCHANGED <<envVars, buildVars, proc, stream, latest_fps, latest_bitrate, sw,
                   pc, use_csi, usbnode, die_msg, exit_code, g_ctx_set, handlers,
                   running, prev_pid, cam_pid, tmpdir, fifo, stats, fifo_rd, fifo_wr,
                   child, sigpend, kills, intr, eintr, threads, st1, st2>>

log_reader_lock_br ==
    /\ ThreadsLive
    /\ lr.pc = "lock_br"
    /\ mu = "none"
    /\ mu' = "lr"
    /\ lr' = [lr EXCEPT !.pc = "set_br"]
    /\ UNCHANGED <<envVars, buildVars, proc, stream, latest_fps, latest_bitrate, sw,
                   pc, use_csi, usbnode, die_msg, exit_code, g_ctx_set, handlers,
                   running, prev_pid, cam_pid, tmpdir, fifo, stats, fifo_rd, fifo_wr,
                   child, sigpend, kills, intr, eintr, threads, st1, st2>>

log_reader_set_br ==
    /\ ThreadsLive
    /\ lr.pc = "set_br"
    /\ latest_bitrate' = lr.b
    /\ lr' = [lr EXCEPT !.pc = "unlock_br", !.ups = Append(lr.ups, <<"bitrate", lr.b>>)]
    /\ UNCHANGED <<envVars, buildVars, proc, stream, latest_fps, mu, sw,
                   pc, use_csi, usbnode, die_msg, exit_code, g_ctx_set, handlers,
                   running, prev_pid, cam_pid, tmpdir, fifo, stats, fifo_rd, fifo_wr,
                   child, sigpend, kills, intr, eintr, threads, st1, st2>>

log_reader_unlock_br ==
    /\ ThreadsLive
    /\ lr.pc = "unlock_br"
    /\ mu' = "none"
    /\ lr' = [lr EXCEPT !.pc = "scan", !.line = ""]
    /\ UNCHANGED <<envVars, buildVars, proc, stream, latest_fps, latest_bitrate, sw,
                   pc, use_csi, usbnode, die_msg, exit_code, g_ctx_set, handlers,
                   running, prev_pid, cam_pid, tmpdir, fifo, stats, fifo_rd, fifo_wr,
                   child, sigpend, kills, intr, eintr, threads, st1, st2>>

(***************************************************************************)
(* stats_writer(): the sampler and publisher thread.                       *)
(***************************************************************************)
\* printf("%.1f") cutting the digits after the first decimal instead of rounding
Fmt1_truncating(r) ==
    IF r.d = 0 THEN "nan"
    ELSE Itoa(((10 * r.n) \div r.d) \div 10) \o "." \o Itoa(((10 * r.n) \div r.d) % 10)

\* printf("%.1f") of a value >= 0: the nearest tenth, an exact tie to the even one
Fmt1(r) ==
    LET q == (10 * r.n) \div r.d
        rem == (10 * r.n) % r.d
        t == IF 2 * rem > r.d THEN q + 1
             ELSE IF 2 * rem = r.d THEN q + (q % 2)
             ELSE q
    IN  IF r.d = 0 THEN "nan"
        ELSE Itoa(t \div 10) \o "." \o Itoa(t % 10)

\* the six fprintf() calls of one publish cycle
stats_text(fps, width, height, br, cpu, mem) ==
    "FPS: " \o Fmt1(fps) \o "\n"
    \o "RES: " \o Itoa(width) \o "x" \o Itoa(height) \o "\n"
    \o "BitRate: " \o br \o "\n"
    \o "CPU: " \o Fmt1(cpu) \o "%\n"
    \o "MEM: " \o Fmt1(Zero) \o "%\n"
    \o "MEM_MB: " \o Fmt1(mem) \o "\n"

\* pid_t pids[2] = {ctx->cam_pid, ctx->prev_pid}
stats_writer_pids == <<cam_pid, prev_pid>>

\* while (ctx->running)
stats_writer_loop ==
    /\ ThreadsLive
    /\ sw.pc = "loop"
    /\ sw' = [sw EXCEPT !.pc = IF running # 0 THEN "cpu" ELSE "done"]
    /\ UNCHANGED <<envVars, buildVars, proc, stream, latest_fps, latest_bitrate, mu, lr,
                   pc, use_csi, usbnode, die_msg, exit_code, g_ctx_set, handlers,
                   running, prev_pid, cam_pid, tmpdir, fifo, stats, fifo_rd, fifo_wr,
                   child, sigpend, kills, intr, eintr, threads, st1, st2>>

stats_writer_cpu ==
    /\ ThreadsLive
    /\ sw.pc = "cpu"
    /\ sw' = [sw EXCEPT !.pc = "mem",
                        !.cpu = cpu_percent_for_pids(stats_writer_pids, proc.t0, proc.t1)]
    /\ UNCHANGED <<envVars, buildVars, proc, stream, latest_fps, latest_bitrate, mu, lr,
                   pc, use_csi, usbnode, die_msg, exit_code, g_ctx_set, handlers,
                   running, prev_pid, cam_pid, tmpdir, fifo, stats, fifo_rd, fifo_wr,
                   child, sigpend, kills, intr, eintr, threads, st1, st2>>

stats_writer_mem ==
    /\ ThreadsLive
    /\ sw.pc = "mem"
    /\ sw' = [sw EXCEPT !.pc = "lock",
                        !.mem = rss_mb_for_pids(stats_writer_pids, proc.rss)]
    /\ UNCHANGED <<envVars, buildVars, proc, stream, latest_fps, latest_bitrate, mu, lr,
                   pc, use_csi, usbnode, die_msg, exit_code, g_ctx_set, handlers,
                   running, prev_pid, cam_pid, tmpdir, fifo, stats, fifo_rd, fifo_wr,
                   child, sigpend, kills, intr, eintr, threads, st1, st2>>

\* the publisher entering its critical section without waiting for the lock
stats_writer_lock_no_wait ==
    /\ ThreadsLive
    /\ sw.pc = "lock"
    /\ mu' = "sw"
    /\ sw' = [sw EXCEPT !.pc = "snapshot"]
    /\ UNCHANGED <<envVars, buildVars, proc, stream, latest_fps, latest_bitrate, lr,
                   pc, use_csi, usbnode, die_msg, exit_code, g_ctx_set, handlers,
                   running, prev_pid, cam_pid, tmpdir, fifo, stats, fifo_rd, fifo_wr,
                   child, sigpend, kills, intr, eintr, threads, st1, st2>>

\* pthread_mutex_lock(&st->mu)
stats_writer_lock ==
    /\ ThreadsLive
    /\ sw.pc = "lock"
    /\ mu = "none"
    /\ mu' = "sw"
    /\ sw' = [sw EXCEPT !.pc = "snapshot"]
    /\ UNCHANGED <<envVars, buildVars, proc, stream, latest_fps, latest_bitrate, lr,
                   pc, use_csi, usbnode, die_msg, exit_code, g_ctx_set, handlers,
                   running, prev_pid, cam_pid, tmpdir, fifo, stats, fifo_rd, fifo_wr,
                   child, sigpend, kills, intr, eintr, threads, st1, st2>>

\* the bitrate string the publisher prints for the shared one
snapshot_bitrate(shared) == IF shared # "" THEN shared ELSE "N/A"

stats_writer_snapshot ==
    /\ ThreadsLive
    /\ sw.pc = "snapshot"
    /\ sw' = [sw EXCEPT !.pc = "unlock", !.fps = latest_fps,
                        !.br = snapshot_bitrate(latest_bitrate)]
    /\ UNCHANGED <<envVars, buildVars, proc, stream, latest_fps, latest_bitrate, mu, lr,
                   pc, use_csi, usbnode, die_msg, exit_code, g_ctx_set, handlers,
                   running, prev_pid, cam_pid, tmpdir, fifo, stats, fifo_rd, fifo_wr,
                   child, sigpend, kills, intr, eintr, threads, st1, st2>>

stats_writer_unlock ==
    /\ ThreadsLive
    /\ sw.pc = "unlock"
    /\ mu' = "none"
    /\ sw' = [sw EXCEPT !.pc = "fopen"]
    /\ UNCHANGED <<envVars, buildVars, proc, stream, latest_fps, latest_bitrate, lr,
                   pc, use_csi, usbnode, die_msg, exit_code, g_ctx_set, handlers,
                   running, prev_pid, cam_pid, tmpdir, fifo, stats, fifo_rd, fifo_wr,
                   child, sigpend, kills, intr, eintr, threads, st1, st2>>

\* fopen() in append mode: the content stays
stats_writer_fopen_append ==
    /\ ThreadsLive
    /\ sw.pc = "fopen"
    /\ \E ok \in (IF tmpdir = "exists" THEN BOOLEAN ELSE {FALSE}) :
         /\ stats' = IF ok /\ stats = "none" THEN "" ELSE stats
         /\ sw' = [sw EXCEPT !.pc = IF ok THEN "fclose" ELSE "sleep"]
    /\ UNCHANGED <<envVars, buildVars, proc, stream, latest_fps, latest_bitrate, mu, lr,
                   pc, use_csi, usbnode, die_msg, exit_code, g_ctx_set, handlers,
                   running, prev_pid, cam_pid, tmpdir, fifo, fifo_rd, fifo_wr,
                   child, sigpend, kills, intr, eintr, threads, st1, st2>>

\* fopen(ctx->stats_path, "w"): the file is truncated; a failure skips the cycle
stats_writer_fopen ==
    /\ ThreadsLive
    /\ sw.pc = "fopen"
    /\ \E ok \in (IF tmpdir = "exists" THEN BOOLEAN ELSE {FALSE}) :
         /\ stats' = IF ok THEN "" ELSE stats
         /\ sw' = [sw EXCEPT !.pc = IF ok THEN "fclose" ELSE "sleep"]
    /\ UNCHANGED <<envVars, buildVars, proc, stream, latest_fps, latest_bitrate, mu, lr,
                   pc, use_csi, usbnode, die_msg, exit_code, g_ctx_set, handlers,
                   running, prev_pid, cam_pid, tmpdir, fifo, fifo_rd, fifo_wr,
                   child, sigpend, kills, intr, eintr, threads, st1, st2>>

\* the fprintf() calls fill the stdio buffer; fclose() writes it out where the
\* stream stands, the end of what fopen() left
stats_writer_fclose ==
    /\ ThreadsLive
    /\ sw.pc = "fclose"
    /\ stats' = stats \o stats_text(sw.fps, cfg.width, cfg.height, sw.br, sw.cpu, sw.mem)
    /\ sw' = [sw EXCEPT !.pc = "sleep"]
    /\ UNCHANGED <<envVars, buildVars, proc, stream, latest_fps, latest_bitrate, mu, lr,
                   pc, use_csi, usbnode, die_msg, exit_code, g_ctx_set, handlers,
                   running, prev_pid, cam_pid, tmpdir, fifo, fifo_rd, fifo_wr,
                   child, sigpend, kills, intr, eintr, threads, st1, st2>>

\* sleep(1)
stats_writer_sleep ==
    /\ ThreadsLive
    /\ sw.pc = "sleep"
    /\ sw' = [sw EXCEPT !.pc = "loop"]
    /\ UNCHANGED <<envVars, buildVars, proc, stream, latest_fps, latest_bitrate, mu, lr,
                   pc, use_csi, usbnode, die_msg, exit_code, g_ctx_set, handlers,
                   running, prev_pid, cam_pid, tmpdir, fifo, stats, fifo_rd, fifo_wr,
                   child, sigpend, kills, intr, eintr, threads, st1, st2>>

(***************************************************************************)
(* parse_cfg(): the command line.                                          *)
(***************************************************************************)
\* sscanf("%d") and atoi(): white space, an optional sign, decimal digits
\* (command lines of the model stay within int)
ScanInt(s, from) ==
    LET i == SkipSpace(s, from)
        neg == CharAt(s, i) = "-"
        j == IF CharAt(s, i) \in {"-", "+"} THEN i + 1 ELSE i
        w == ScanInteger(s, j, 0)
    IN  IF ~IsDigit(CharAt(s, j)) THEN [ok |-> FALSE, val |-> 0, next |-> from]
        ELSE [ok |-> TRUE, val |-> IF neg THEN 0 - w[1] ELSE w[1], next |-> w[2]]

atoi(s) == ScanInt(s, 1).val

\* parse_res(): sscanf(s, "%dx%d", w, h) != 2 || *w <= 0 || *h <= 0 is fatal
parse_res(s, c) ==
    LET a == ScanInt(s, 1)
        x == a.ok /\ CharAt(s, a.next) = "x"
        b == IF x THEN ScanInt(s, a.next + 1) ELSE [ok |-> FALSE, val |-> 0, next |-> 0]
        w == IF a.ok THEN a.val ELSE c.width
        h == IF b.ok THEN b.val ELSE c.height
    IN  [ok |-> a.ok /\ b.ok /\ w > 0 /\ h > 0,
         cfg |-> [c EXCEPT !.width = w, !.height = h]]

\* the device number of a --source /dev/video<N> argument, 0 for a path that
\* names no node of the model
NodeOf(path) ==
    IF \E n \in DevNums : DevPath(n) = path
    THEN CHOOSE n \in DevNums : DevPath(n) = path
    ELSE 0

\* how parse_cfg() ends: it returns, die()s, or prints the usage and exit(0)s
Parsed(c, l) == [end |-> "return", msg |-> "", cfg |-> c, list_only |-> l]
Fatal(m, c, l) == [end |-> "die", msg |-> m, cfg |-> c, list_only |-> l]

\* parse_cfg()'s loop from argv[i] on (argv[0] left out: args[1] is argv[1])
RECURSIVE parse_args(_, _, _, _)
parse_args(args, i, c, l) ==
    IF i > Len(args) THEN Parsed(c, l)
    ELSE LET a == args[i]
             more == i + 1 <= Len(args)
             v == IF more THEN args[i + 1] ELSE ""
         IN
         IF a \in {"-h", "--help"} THEN [end |-> "usage", msg |-> "", cfg |-> c, list_only |-> l]
         ELSE IF a \in {"-m", "--method", "-r", "--resolution", "-f", "--fps", "-b", "--bitrate",
                        "-c", "--corner", "-s", "--source", "-e", "--encode"} /\ ~more
         THEN Fatal("missing value", c, l)
         ELSE IF a \in {"-m", "--method"} THEN parse_args(args, i + 2, c, l)
         ELSE IF a \in {"-r", "--resolution"}
         THEN IF parse_res(v, c).ok THEN parse_args(args, i + 2, parse_res(v, c).cfg, l)
              ELSE Fatal("Invalid resolution", parse_res(v, c).cfg, l)
         ELSE IF a \in {"-f", "--fps"}
         THEN parse_args(args, i + 2, [c EXCEPT !.fps = atoi(v)], l)
         ELSE IF a \in {"-b", "--bitrate"}
         THEN parse_args(args, i + 2, [c EXCEPT !.bitrate = atoi(v)], l)
         ELSE IF a \in {"-c", "--corner"}
         THEN parse_args(args, i + 2, [c EXCEPT !.corner = SubSeq(v, 1, Min(Len(v), 31))], l)
         ELSE IF a \in {"-s", "--source"}
         THEN IF v = "auto" THEN parse_args(args, i + 2, [c EXCEPT !.source_mode = SRC_AUTO], l)
              ELSE IF v = "csi" THEN parse_args(args, i + 2, [c EXCEPT !.source_mode = SRC_CSI], l)
              ELSE IF StartsWith(v, "/dev/video")
              THEN parse_args(args, i + 2, [c EXCEPT !.source_mode = SRC_USBNODE,
                                                    !.source_node = NodeOf(v)], l)
              ELSE Fatal("invalid --source", c, l)
         ELSE IF a \in {"-e", "--encode"}
         THEN IF v = "auto" THEN parse_args(args, i + 2, [c EXCEPT !.encode_mode = ENC_AUTO], l)
              ELSE IF v = "software"
              THEN parse_args(args, i + 2, [c EXCEPT !.encode_mode = ENC_SOFTWARE], l)
              ELSE IF v = "hardware"
              THEN parse_args(args, i + 2, [c EXCEPT !.encode_mode = ENC_HARDWARE], l)
              ELSE Fatal("invalid --encode", c, l)
         ELSE IF a = "--list-cameras" THEN parse_args(args, i + 1, c, TRUE)
         ELSE IF a = "--no-menu" THEN parse_args(args, i + 1, c, l)
         ELSE IF a = "--no-overlay" THEN parse_args(args, i + 1, [c EXCEPT !.no_overlay = TRUE], l)
         ELSE Fatal("unknown arg", c, l)

\* parse_cfg(): the defaults, then the loop over the arguments
parse_cfg(args) == parse_args(args, 1, SourceCfg(SRC_AUTO, NoNode, FALSE), FALSE)

\* command lines: resolutions that parse and that do not, frame rates and bit
\* rates that are positive, zero, negative and not numbers, and the other
\* ways parse_cfg() ends
CmdLines ==
    { <<>>,
      <<"-r", "640x480">>, <<"-r", "abc">>, <<"-r", "0x0">>, <<"-r", "640x">>,
      <<"--resolution", "640x-480">>,
      <<"-f", "25">>, <<"-f", "0">>, <<"--fps", "abc">>, <<"-f", "-5">>,
      <<"-b", "2500000">>, <<"-b", "0">>, <<"--bitrate", "fast">>,
      <<"-r", "640x480", "-f", "0">>,
      <<"-f">>, <<"--bogus">>, <<"-h">>, <<"--list-cameras">>,
      <<"--no-overlay", "-c", "top-right">>, <<"-s", "/dev/video2", "-e", "software">>,
      <<"-s", "usb">>, <<"-e", "fast">>, <<"--no-menu", "-m", "x">> }

\* main() from its entry: parse_cfg(), and for --list-cameras the helper check
\* and the listing, after which main() returns 0
main_parse_cfg ==
    /\ pc = "parse_cfg"
    /\ \E args \in CmdLines :
         LET r == parse_cfg(args) IN
         IF r.end = "die" THEN die(r.msg) /\ UNCHANGED cfg
         ELSE IF r.end = "usage"
         THEN exit_code' = 0 /\ pc' = "exited" /\ UNCHANGED <<die_msg, cfg>>
         ELSE IF r.list_only
         THEN /\ cfg' = r.cfg
              /\ IF ~have_ffmpeg THEN die("ffmpeg not found")
                 ELSE exit_code' = 0 /\ pc' = "exited" /\ UNCHANGED die_msg
         ELSE cfg' = r.cfg /\ pc' = "check_ffmpeg" /\ UNCHANGED <<die_msg, exit_code>>
    /\ UNCHANGED <<have_ffmpeg, have_cam_cmd, report, devs, dev_fmts,
                   threadVars, buildVars, use_csi, usbnode, g_ctx_set, handlers, running,
                   prev_pid, cam_pid, tmpdir, fifo, stats, fifo_rd, fifo_wr,
                   child, sigpend, kills, intr, eintr, threads, st1, st2>>

(***************************************************************************)
(* The children (external processes).                                      *)
(***************************************************************************)
Ended(c, how, status) ==
    /\ child' = [child EXCEPT ![c] = [st |-> "zombie", how |-> how, status |-> status]]
    /\ sigpend' = [sigpend EXCEPT ![c] = FALSE]
    /\ fifo_rd' = IF c = "prev" THEN FALSE ELSE fifo_rd
    /\ fifo_wr' = fifo_wr \ {c}
    /\ UNCHANGED <<envVars, threadVars, buildVars, pc, use_csi, usbnode, die_msg, exit_code, g_ctx_set,
                   handlers, running, prev_pid, cam_pid, tmpdir, fifo, stats,
                   kills, intr, eintr, threads, st1, st2>>

\* a child ends on its own (end of stream, error, exec failure), status 0 or not
child_exit(c) ==
    /\ child[c].st = "alive"
    /\ \E s \in {0, 1} : Ended(c, "own", s)

\* a child ends on the SIGTERM sent to it
child_sigterm(c) ==
    /\ child[c].st = "alive"
    /\ sigpend[c]
    /\ Ended(c, "term", 1)

\* the consumer opens the named pipe for reading (-i fifo_path)
prev_open_fifo ==
    /\ child["prev"].st = "alive"
    /\ fifo
    /\ ~fifo_rd
    /\ fifo_rd' = TRUE
    /\ UNCHANGED <<envVars, threadVars, buildVars, pc, use_csi, usbnode, die_msg, exit_code, g_ctx_set,
                   handlers, running, prev_pid, cam_pid, tmpdir, fifo, stats,
                   fifo_wr, child, sigpend, kills, intr, eintr, threads, st1, st2>>

(***************************************************************************)
(* The supervisor with its children and signals.                           *)
(***************************************************************************)
GoodUvc == [ok |-> TRUE, driver |-> "uvcvideo", card |-> "HD Webcam",
            capabilities |-> {"VIDEO_CAPTURE", "DEVICE_CAPS"},
            device_caps |-> {"VIDEO_CAPTURE"}]

Init ==
    /\ have_ffmpeg \in BOOLEAN
    /\ have_cam_cmd \in BOOLEAN
    /\ report \in {"No cameras available!\n", "Available cameras\nIndex 0 : imx219 (i2c@1)\n"}
    /\ devs \in {d \in DevConfigs(1) : \A n \in DOMAIN d : n = 2 /\ d[n] = GoodUvc}
    /\ cfg \in {c \in Cfgs : c.source_node \in {NoNode, 2}}
    /\ dev_fmts = {"MJPG", "YUYV"}
    /\ proc = QuietProc
    /\ stream = ""
    /\ InitProgram

Main ==
    \/ main_check_ffmpeg
    \/ main_decide_source
    \/ main_prepare_ctx
    \/ main_mkdtemp
    \/ safe_mkfifo
    \/ main_precreate_stats
    \/ start_preview
    \/ start_preview_record
    \/ start_csi_camera_open
    \/ start_csi_camera_fork
    \/ spawn_child_close_stdout
    \/ start_usb_ffmpeg
    \/ start_camera_record
    \/ main_create_threads
    \/ main_wait_cam
    \/ main_wait_prev
    \/ main_stop_threads
    \/ main_join_threads
    \/ main_cleanup

Next ==
    \/ Main
    \/ terminate_children
    \/ \E c \in Children : child_exit(c)
    \/ \E c \in Children : child_sigterm(c)
    \/ prev_open_fifo

Spec == Init /\ [][Next]_vars

\* The main thread keeps running, a child dies of a pending SIGTERM, and a live
\* consumer gets to open the pipe; children are not obliged to end on their own.
FairSpec ==
    /\ Spec
    /\ WF_vars(Main)
    /\ \A c \in Children : WF_vars(child_sigterm(c))
    /\ WF_vars(prev_open_fifo)

(***************************************************************************)
(* The selector over every environment within the bounds: main() from its  *)
(* entry to the spawn of the USB producer, with no signal and no child     *)
(* event (the onboard path stops before its blocking open of the pipe).    *)
(***************************************************************************)
InitSelect ==
    /\ have_ffmpeg \in BOOLEAN
    /\ have_cam_cmd \in BOOLEAN
    /\ report \in Reports
    /\ devs \in DevConfigs(MaxPresent)
    /\ cfg \in {c \in Cfgs : ~c.no_overlay}
    /\ dev_fmts = {"MJPG", "YUYV"}
    /\ proc = QuietProc
    /\ stream = ""
    /\ InitProgram

NextSelect ==
    \/ main_check_ffmpeg
    \/ main_decide_source
    \/ main_prepare_ctx
    \/ main_mkdtemp
    \/ safe_mkfifo
    \/ main_precreate_stats
    \/ start_preview
    \/ start_preview_record
    \/ start_usb_ffmpeg

SpecSelect == InitSelect /\ [][NextSelect]_vars

(***************************************************************************)
(* The pipeline builders over the configurations that reach them: one UVC  *)
(* device listing any set of pixel formats, every encode mode and corner.  *)
(***************************************************************************)
Corners == {"top-left", "top-right", "bottom-left", "bottom-right"}
EncodeModes == {ENC_AUTO, ENC_SOFTWARE, ENC_HARDWARE}
BitRates == {2500000, 4000000}

BuildCfgs ==
    { [SourceCfg(m[1], m[2], FALSE) EXCEPT !.encode_mode = e, !.corner = k, !.bitrate = b] :
        m \in {<<SRC_AUTO, NoNode>>, <<SRC_USBNODE, 2>>},
        e \in EncodeModes, k \in Corners, b \in BitRates }

InitBuild ==
    /\ have_ffmpeg \in BOOLEAN
    /\ have_cam_cmd \in BOOLEAN
    /\ report = "No cameras available!\n"
    /\ devs \in {d \in DevConfigs(1) : \A n \in DOMAIN d : n = 2 /\ d[n] = GoodUvc}
    /\ cfg \in BuildCfgs
    /\ dev_fmts \in SUBSET PixFmts
    /\ proc = QuietProc
    /\ stream = ""
    /\ InitProgram

SpecBuild == InitBuild /\ [][NextSelect]_vars

(***************************************************************************)
(* The sampler over the /proc contents of Procs.                           *)
(***************************************************************************)
\* main() on a machine with one UVC camera and no onboard sensor
UsbSession ==
    /\ have_ffmpeg = TRUE
    /\ have_cam_cmd = FALSE
    /\ report = ""
    /\ devs \in {d \in DevConfigs(1) : DOMAIN d = {2} /\ d[2] = GoodUvc}
    /\ dev_fmts = {"MJPG", "YUYV"}

InitSampler ==
    /\ UsbSession
    /\ cfg = SourceCfg(SRC_AUTO, NoNode, FALSE)
    /\ proc \in Procs
    /\ stream = ""
    /\ InitProgram

NextSampler ==
    \/ main_check_ffmpeg
    \/ main_decide_source
    \/ main_prepare_ctx
    \/ main_mkdtemp
    \/ safe_mkfifo
    \/ main_precreate_stats
    \/ start_preview
    \/ start_preview_record
    \/ start_usb_ffmpeg
    \/ start_camera_record
    \/ main_create_threads
    \/ stats_writer_loop
    \/ stats_writer_cpu
    \/ stats_writer_mem

SpecSampler == InitSampler /\ [][NextSampler]_vars

(***************************************************************************)
(* The progress-log parser over diagnostic streams of up to MaxLines       *)
(* lines, delivered in reads of any sizes.                                 *)
(***************************************************************************)
MaxLines == 2

\* progress lines with both fields, one of them, none, and a malformed number
ProgressLines == {"fps=30 bitrate=5k", "bitrate=9k", "fps= 24.5", "q=1", "fps=x"}

RECURSIVE JoinLines(_, _, _)
JoinLines(ls, term, i) ==
    IF i > Len(ls) THEN "" ELSE ls[i] \o term \o JoinLines(ls, term, i + 1)

LogStreams ==
    { JoinLines(ls, term, 1) :
        ls \in UNION {[1..k -> ProgressLines] : k \in 1..MaxLines}, term \in {"\r", "\n"} }

InitLog ==
    /\ UsbSession
    /\ cfg = SourceCfg(SRC_AUTO, NoNode, FALSE)
    /\ proc = QuietProc
    /\ stream \in LogStreams
    /\ InitProgram

MainToThreads ==
    \/ main_check_ffmpeg
    \/ main_decide_source
    \/ main_prepare_ctx
    \/ main_mkdtemp
    \/ safe_mkfifo
    \/ main_precreate_stats
    \/ start_preview
    \/ start_preview_record
    \/ start_usb_ffmpeg
    \/ start_camera_record
    \/ main_create_threads

LogReader ==
    \/ log_reader_loop
    \/ log_reader_read
    \/ log_reader_scan
    \/ log_reader_lock_fps
    \/ log_reader_set_fps
    \/ log_reader_unlock_fps
    \/ log_reader_lock_br
    \/ log_reader_set_br
    \/ log_reader_unlock_br

StatsWriter ==
    \/ stats_writer_loop
    \/ stats_writer_cpu
    \/ stats_writer_mem
    \/ stats_writer_lock
    \/ stats_writer_snapshot
    \/ stats_writer_unlock
    \/ stats_writer_fopen
    \/ stats_writer_fclose
    \/ stats_writer_sleep

NextLog == MainToThreads \/ LogReader

SpecLog == InitLog /\ [][NextLog]_vars

(***************************************************************************)
(* Both overlay threads side by side, from main()'s entry on.              *)
(***************************************************************************)
Resolutions == {<<1280, 720>>, <<640, 480>>}

OverlayStreams == {"fps= 29.97 bitrate=5k\r", "bitrate=9k\nfps=24.5\n"}

InitOverlay ==
    /\ UsbSession
    /\ cfg \in {[SourceCfg(SRC_AUTO, NoNode, FALSE) EXCEPT !.width = r[1], !.height = r[2]] :
                  r \in Resolutions}
    /\ proc = QuietProc
    /\ stream \in OverlayStreams
    /\ InitProgram

NextOverlay == MainToThreads \/ LogReader \/ StatsWriter

SpecOverlay == InitOverlay /\ [][NextOverlay]_vars

(***************************************************************************)
(* The progress-log parser over streams that end in the middle of a line:  *)
(* up to MaxLines terminated lines, then bytes with no terminator.         *)
(***************************************************************************)
PartLines == {"fps=30 bitrate=5k", "bitrate=9k", "q=1"}

PartTails == {"", "fps=7"}

SplitStreams ==
    { JoinLines(ls, term, 1) \o tail :
        ls \in UNION {[1..k -> PartLines] : k \in 1..MaxLines},
        term \in {"\r", "\n"}, tail \in PartTails }

InitSplit ==
    /\ UsbSession
    /\ cfg = SourceCfg(SRC_AUTO, NoNode, FALSE)
    /\ proc = QuietProc
    /\ stream \in SplitStreams
    /\ InitProgram

SpecSplit == InitSplit /\ [][NextLog]_vars

(***************************************************************************)
(* Both overlay threads over a stream of two progress lines that each      *)
(* carry both fields, as ffmpeg prints them.                               *)
(***************************************************************************)
PairLines == <<"fps=30 bitrate=5k", "fps=24 bitrate=9k">>

InitSnapshot ==
    /\ UsbSession
    /\ cfg = SourceCfg(SRC_AUTO, NoNode, FALSE)
    /\ proc = QuietProc
    /\ stream = JoinLines(PairLines, "\n", 1)
    /\ InitProgram

SpecSnapshot == InitSnapshot /\ [][NextOverlay]_vars

(***************************************************************************)
(* The overlay threads through the end of a USB session whose children     *)
(* keep running: the interrupt path clears the flag at any moment, its     *)
(* signals interrupt main()'s waits, and main() goes on to clear the flag  *)
(* itself and to cancel and join the threads.  The consumer's diagnostic   *)
(* stream holds one progress line; once it is read the stream delivers     *)
(* nothing more.                                                           *)
(***************************************************************************)
StopStreams == {"fps=1bitrate=2\n"}

InitStop ==
    /\ UsbSession
    /\ cfg = SourceCfg(SRC_AUTO, NoNode, FALSE)
    /\ proc = QuietProc
    /\ stream \in StopStreams
    /\ InitProgram

MainUsb ==
    \/ MainToThreads
    \/ main_wait_cam
    \/ main_wait_prev
    \/ main_stop_threads
    \/ main_join_threads
    \/ main_cleanup

NextStop ==
    \/ MainUsb
    \/ terminate_children
    \/ LogReader
    \/ StatsWriter

SpecStop == InitStop /\ [][NextStop]_vars

\* the thread has a step to take: it has not returned, and when it stands at
\* pthread_mutex_lock() the lock is free
ReaderCanStep ==
    ThreadsLive /\ lr.pc # "done" /\ (lr.pc \in {"lock_fps", "lock_br"} => mu = "none")

WriterCanStep ==
    ThreadsLive /\ sw.pc # "done" /\ (sw.pc = "lock" => mu = "none")

\* Each thread is scheduled again and again: its sleeps are bounded, its read
\* does not block and the lock is held only over a copy.  This is weak fairness
\* of the two threads, WF_vars(LogReader) /\ WF_vars(StatsWriter), written out
\* with the enabling conditions above: a thread that can step from some point
\* on without end does step.  main() and the interrupt path are not obliged
\* to move.
FairStop ==
    /\ SpecStop
    /\ ([]<>(~ReaderCanStep) \/ []<><<LogReader>>_vars)
    /\ ([]<>(~WriterCanStep) \/ []<><<StatsWriter>>_vars)

(***************************************************************************)
(* main() from the command line to the spawn of the USB producer, over     *)
(* the command lines of CmdLines.                                          *)
(***************************************************************************)
\* cfg is written by parse_cfg() before anything reads it
InitCfg ==
    /\ UsbSession
    /\ cfg = SourceCfg(SRC_AUTO, NoNode, FALSE)
    /\ proc = QuietProc
    /\ stream = ""
    /\ pc = "parse_cfg"
    /\ InitLocals

NextCfg == main_parse_cfg \/ NextSelect

SpecCfg == InitCfg /\ [][NextCfg]_vars

(***************************************************************************)
(* The onboard-availability check over generated camera listings: a first  *)
(* line (the header, another message, or nothing) followed by up to        *)
(* MaxEntries entries, each on the USB bus or not, in every order.         *)
(***************************************************************************)
MaxEntries == 3

EntryKinds == {"usb", "csi"}

ListingHeads == {"Available cameras\n-----------------\n", "No cameras available!\n", ""}

ListingEntry(i, kind) ==
    "Index " \o Itoa(i) \o " : "
    \o (IF kind = "usb" THEN "webcam [1280x720] (usb@1)" ELSE "imx219 [3280x2464] (i2c@1)")
    \o "\n"

RECURSIVE ListingBody(_, _)
ListingBody(kinds, i) ==
    IF i > Len(kinds) THEN ""
    ELSE ListingEntry(i - 1, kinds[i]) \o ListingBody(kinds, i + 1)

Listings ==
    { h \o ListingBody(ks, 1) :
        h \in ListingHeads, ks \in UNION {[1..k -> EntryKinds] : k \in 0..MaxEntries} }

InitDetect ==
    /\ have_ffmpeg \in BOOLEAN
    /\ have_cam_cmd \in BOOLEAN
    /\ report \in Listings
    /\ devs \in {d \in DevConfigs(1) : \A n \in DOMAIN d : n = 2 /\ d[n] = GoodUvc}
    /\ cfg \in {c \in Cfgs : c.source_mode \in {SRC_AUTO, SRC_CSI} /\ ~c.no_overlay}
    /\ dev_fmts = {"MJPG", "YUYV"}
    /\ proc = QuietProc
    /\ stream = ""
    /\ InitProgram

NextDetect ==
    \/ main_check_ffmpeg
    \/ main_decide_source

SpecDetect == InitDetect /\ [][NextDetect]_vars

(***************************************************************************)
(* Properties.                                                             *)
(***************************************************************************)
Other(c) == IF c = "prev" THEN "cam" ELSE "prev"

\* both children are spawned and recorded and main() is in its waits
Supervising == pc \in {"wait_cam", "wait_prev"}

\* C1: when one child has exited on its own while the other is still alive,
\* the supervisor eventually has the session marked not-live and has sent a
\* termination request to the other child (or that child is no longer alive),
\* unless an interrupt takes the shutdown over first.
C1_ChildExitLeadsToDraining ==
    \A c \in Children :
        (Supervising /\ intr = 0 /\ child[c].how = "own" /\ child[Other(c)].st = "alive")
            ~> \/ running = 0 /\ (kills[Other(c)] > 0 \/ child[Other(c)].st # "alive")
               \/ intr > 0

\* C2: once an interrupt has been delivered (handlers installed), the
\* supervisor eventually exits.
C2_InterruptLeadsToExit == (intr > 0) ~> (pc = "exited")

\* C3: a step of the interrupt path clears the liveness flag and sends one
\* termination signal to each child whose pid is recorded, and nothing else:
\* it leaves the main thread's position, the exit status, the artifacts, the
\* threads and the children's records alone; the ephemeral directory is
\* removed only by the main thread's cleanup step, never by the interrupt path.
C3_InterruptPathEffects ==
    /\ [][intr' # intr =>
            /\ running' = 0
            /\ \A c \in Children :
                 kills'[c] = IF PidOf(c) > 0 THEN kills[c] + 1 ELSE kills[c]
            /\ pc' = pc /\ exit_code' = exit_code /\ die_msg' = die_msg
            /\ tmpdir' = tmpdir /\ fifo' = fifo /\ stats' = stats
            /\ threads' = threads /\ child' = child
            /\ prev_pid' = prev_pid /\ cam_pid' = cam_pid]_vars
    /\ [][tmpdir' # tmpdir /\ tmpdir' = "removed" =>
            pc = "cleanup" /\ intr' = intr]_vars

\* C3 witness: an interrupt arrived while both pids were recorded; both
\* children were signalled and the artifacts are still there.
C3_Witness ==
    /\ intr = 1 /\ running = 0
    /\ kills["prev"] = 1 /\ kills["cam"] = 1
    /\ Supervising /\ tmpdir = "exists" /\ fifo

\* C4: when the supervisor has exited, the ephemeral directory is not left
\* behind.
C4_TmpdirRemovedAtExit == pc = "exited" => tmpdir # "exists"

\* C5: the ephemeral directory (with the named pipe) is removed only once
\* both children have exited and their statuses have been collected.
C5_RemovedOnlyAfterBothReaped ==
    tmpdir = "removed" => \A c \in Children : child[c].st = "reaped"

\* C6: when the run ended because a child exited on its own with a non-zero
\* status (no interrupt), the supervisor does not exit with status 0.
C6_ExitReflectsChildStatus ==
    (/\ pc = "exited"
     /\ intr = 0
     /\ \E c \in Children : child[c].how = "own" /\ child[c].status # 0)
        => exit_code # 0

\* the fatal diagnostics the claim lists: no capture helper, no usable camera,
\* explicit device failing the capability check, directory or pipe creation
SetupFatal ==
    {"ffmpeg not found", "rpicam-vid/libcamera-vid required for CSI",
     "CSI camera not found", "No supported camera found", "Invalid USB node",
     "mkdtemp", "mkfifo"}

Decided == pc \notin {"check_ffmpeg", "decide_source"} /\ have_ffmpeg

\* the onboard-availability check as main() evaluates it
CsiAvailable == detect_csi_available(have_cam_cmd, report)

\* the devices the Prober accepts
Accepted == {n \in DOMAIN devs : v4l2_supports_capture(devs, n)}

\* C8: in auto mode the selector takes the onboard sensor whenever the
\* availability check is true, whatever devices are present; otherwise the
\* accepted device whose path is least in path order; otherwise it fails with
\* the no-camera diagnostic.
C8_AutoSelection ==
    (Decided /\ cfg.source_mode = SRC_AUTO) =>
        IF CsiAvailable
        THEN use_csi /\ usbnode = NoNode /\ die_msg # "No supported camera found"
        ELSE IF Accepted # {}
        THEN /\ ~use_csi
             /\ usbnode \in Accepted
             /\ \A m \in Accepted \ {usbnode} : PathLess(usbnode, m)
             /\ die_msg # "No supported camera found"
        ELSE ~use_csi /\ usbnode = NoNode /\ die_msg = "No supported camera found"

\* C8 witness: auto mode, no onboard sensor, /dev/video10 and /dev/video2 both
\* accepted: /dev/video10 (first in path order) was selected.
C8_Witness ==
    /\ Decided /\ cfg.source_mode = SRC_AUTO /\ ~CsiAvailable
    /\ Accepted = {2, 10} /\ usbnode = 10 /\ pc = "prepare_ctx"

\* C9: explicit onboard mode fails whenever the availability check is false,
\* explicit device mode fails whenever the Prober rejects the given path, and
\* neither explicit mode ever resolves to another source.
C9_ExplicitModesFail ==
    /\ (Decided /\ cfg.source_mode = SRC_CSI) =>
          /\ usbnode = NoNode
          /\ IF CsiAvailable THEN use_csi /\ die_msg # "CSI camera not found"
             ELSE ~use_csi /\ die_msg = "CSI camera not found" /\ pc = "exited"
    /\ (Decided /\ cfg.source_mode = SRC_USBNODE) =>
          /\ ~use_csi
          /\ IF cfg.source_node \in Accepted
             THEN usbnode = cfg.source_node /\ die_msg # "Invalid USB node"
             ELSE usbnode = NoNode /\ die_msg = "Invalid USB node" /\ pc = "exited"

\* C9 witness: the explicit device was rejected and the run failed although
\* the onboard sensor and another accepted device were both available.
C9_Witness ==
    /\ cfg.source_mode = SRC_USBNODE /\ cfg.source_node \notin Accepted
    /\ CsiAvailable /\ Accepted # {}
    /\ pc = "exited" /\ die_msg = "Invalid USB node"

\* the capability filter as the claim states it
PassesFilter(cap) ==
    /\ cap.ok
    /\ ~Strstr(cap.driver, "bcm2835") /\ ~Strstr(cap.card, "bcm2835")
    /\ cap.driver = "uvcvideo"
    /\ (cap.capabilities \cup cap.device_caps) \cap CaptureBits # {}

\* C10: whenever a USB source has been selected (auto or explicit) and when
\* the USB producer has been spawned, the device path it is given names a
\* present device that passes the capability filter.
C10_ProducerDevicePassesFilter ==
    ((Decided /\ ~use_csi /\ die_msg \notin SetupFatal) \/ (~use_csi /\ child["cam"].st # "none"))
        => usbnode \in DOMAIN devs /\ PassesFilter(devs[usbnode])

\* C10 witness: auto mode skipped a rejected node that comes first in path
\* order and the producer was spawned on the accepted one.
C10_Witness ==
    /\ cfg.source_mode = SRC_AUTO /\ ~use_csi /\ child["cam"].st = "alive"
    /\ 10 \in DOMAIN devs /\ ~PassesFilter(devs[10]) /\ devs[10].driver = "unicam"
    /\ usbnode = 2

(***************************************************************************)
(* The children's command lines.                                           *)
(***************************************************************************)
\* the option opt is on the command line with the value val
HasOpt(argv, opt, val) ==
    \E i \in 1..(Len(argv) - 1) : argv[i] = opt /\ argv[i + 1] = val

\* the option opt is on the command line
HasFlag(argv, opt) == \E i \in 1..Len(argv) : argv[i] = opt

\* the USB producer's command line has been built
UsbBuilt == ~use_csi /\ cam_argv # <<>>

RateOpts == {"-b:v", "-maxrate", "-bufsize"}

\* C13: for a USB source the encoder is chosen by strict priority: a device
\* that advertises H.264 gets passthrough copy for every encode mode;
\* otherwise the hardware encoder for the modes hardware and auto, and the
\* low-latency software encoder only for the mode software.
C13_EncoderPriority ==
    UsbBuilt =>
        /\ Cardinality({i \in 1..Len(cam_argv) : cam_argv[i] = "-c:v"}) = 1
        /\ IF "H264" \in dev_fmts
           THEN HasOpt(cam_argv, "-c:v", "copy")
           ELSE IF cfg.encode_mode \in {ENC_HARDWARE, ENC_AUTO}
           THEN HasOpt(cam_argv, "-c:v", "h264_v4l2m2m")
           ELSE /\ cfg.encode_mode = ENC_SOFTWARE
                /\ HasOpt(cam_argv, "-c:v", "libx264")
                /\ HasOpt(cam_argv, "-preset", "ultrafast")
                /\ HasOpt(cam_argv, "-tune", "zerolatency")

\* C13 witness: a device advertising H.264 with the hardware mode requested
\* got the copy command line.
C13_Witness ==
    /\ UsbBuilt /\ "H264" \in dev_fmts /\ cfg.encode_mode = ENC_HARDWARE
    /\ HasOpt(cam_argv, "-c:v", "copy")

\* C14 as stated: every USB producer command line, on all three encoder
\* paths, carries -b:v, -maxrate and -bufsize set to the configured bit rate.
C14_AllPathsCapRate ==
    UsbBuilt => \A o \in RateOpts : HasOpt(cam_argv, o, Itoa(cfg.bitrate))

\* C14 amended: the hardware and the software encoder command lines carry
\* -b:v, -maxrate and -bufsize set to the configured bit rate; the passthrough
\* copy command line carries none of the three.
C14_EncodingPathsCapRate ==
    UsbBuilt =>
        IF HasOpt(cam_argv, "-c:v", "copy")
        THEN \A o \in RateOpts : ~HasFlag(cam_argv, o)
        ELSE \A o \in RateOpts :
                /\ HasOpt(cam_argv, o, Itoa(cfg.bitrate))
                /\ Cardinality({i \in 1..Len(cam_argv) : cam_argv[i] = o}) = 1

\* C14 witness: a hardware-encoder command line for the lower bit rate.
C14_Witness ==
    /\ UsbBuilt /\ cfg.bitrate = 2500000
    /\ HasOpt(cam_argv, "-c:v", "h264_v4l2m2m")
    /\ HasOpt(cam_argv, "-bufsize", "2500000")

\* C15: the overlay filter passed to the consumer places the text in the
\* configured corner: its x and y expressions are those of overlay_coords()
\* for cfg.corner.
C15_OverlayInConfiguredCorner ==
    prev_argv # <<>> =>
        \E i \in 1..(Len(prev_argv) - 1) :
            /\ prev_argv[i] = "-vf"
            /\ Strstr(prev_argv[i + 1],
                      ":x=" \o overlay_coords(cfg.corner).ox
                      \o ":y=" \o overlay_coords(cfg.corner).oy \o ":")

(***************************************************************************)
(* The camera listing, read line by line.                                  *)
(***************************************************************************)
RECURSIVE SplitLines(_)
SplitLines(text) ==
    LET nl == Find(text, "\n", 1) IN
    IF text = "" THEN <<>>
    ELSE IF nl = 0 THEN <<text>>
    ELSE <<SubSeq(text, 1, nl - 1)>> \o SplitLines(SubSeq(text, nl + 1, Len(text)))

\* the listed entries of the report and those not tagged as USB-bus devices
ListedEntries == {i \in 1..Len(SplitLines(report)) : Strstr(SplitLines(report)[i], "Index")}
NonUsbEntries == {i \in ListedEntries : ~Strstr(SplitLines(report)[i], "usb@")}
Declared == Strstr(report, "Available cameras")

\* the onboard-availability check has been evaluated by main(); use_csi holds
\* its result
CheckEvaluated == Decided /\ cfg.source_mode \in {SRC_AUTO, SRC_CSI}

\* C11: when the report declares "Available cameras" and at least one listed
\* entry is not tagged as a USB-bus device, the onboard-availability check is
\* true, in whatever order the entries appear.
C11_NonUsbEntryAnyOrder ==
    (CheckEvaluated /\ have_cam_cmd /\ Declared /\ NonUsbEntries # {}) => use_csi

TrueTotal(snap) == snap.cpu.user + snap.cpu.sys + snap.cpu.idle
TrueTicks(snap, i) == snap.pid[i].utime + snap.pid[i].stime

IsZero(r) == r.d # 0 /\ r.n = 0
SameRatio(r, n, d) == r.d # 0 /\ r.n * d = n * r.d

\* the cycle's CPU percentage, and then its memory figure, have been computed
CpuSampled == sw.pc \in {"mem", "lock"}
MemSampled == sw.pc = "lock"

BothStatsRead == proc.t0.cpu.present /\ proc.t1.cpu.present

\* C16: when the system-wide total at t1 minus the total at t0 is zero or
\* negative, the sampler reports a CPU percentage of exactly 0, whatever the
\* per-process counters did.
C16_NonPositiveDeltaIsZero ==
    (CpuSampled /\ BothStatsRead /\ TrueTotal(proc.t1) - TrueTotal(proc.t0) <= 0)
    => IsZero(sw.cpu)

\* C16 witness: the total fell back between the reads while a tracked process
\* gained ticks, and the reported percentage is 0.
C16_Witness ==
    /\ CpuSampled /\ BothStatsRead
    /\ TrueTotal(proc.t1) < TrueTotal(proc.t0)
    /\ \E i \in ProcPids :
          /\ proc.t0.pid[i].present /\ proc.t1.pid[i].present
          /\ TrueTicks(proc.t1, i) > TrueTicks(proc.t0, i)
    /\ IsZero(sw.cpu)

\* C17: with two tracked processes, when one is unreadable at t0 or at t1
\* (and stays so) while the other is readable throughout, the cycle reports
\* exactly the other process's CPU ticks over the total delta and exactly the
\* other process's resident memory.
C17_AbsentContributesZero ==
    \A i \in ProcPids : \A j \in ProcPids \ {i} :
        (/\ MemSampled /\ BothStatsRead
         /\ TrueTotal(proc.t1) > TrueTotal(proc.t0)
         /\ ~proc.t0.pid[i].present \/ ~proc.t1.pid[i].present
         /\ ~proc.rss.pid[i].present
         /\ proc.t0.pid[j].present /\ proc.t1.pid[j].present /\ proc.rss.pid[j].present
         /\ TrueTicks(proc.t1, j) >= TrueTicks(proc.t0, j))
        => /\ SameRatio(sw.cpu,
                        100 * (TrueTicks(proc.t1, j) - TrueTicks(proc.t0, j)),
                        TrueTotal(proc.t1) - TrueTotal(proc.t0))
           /\ SameRatio(sw.mem, proc.rss.pid[j].rss_kb, 1024)

(***************************************************************************)
(* The progress-log parser.                                                *)
(***************************************************************************)
\* the completed line the log reader is applying to the shared record
Applying == lr.pc \in {"lock_fps", "set_fps", "unlock_fps", "lock_br", "set_br", "unlock_br"}

HasFps(line) == Strstr(line, "fps=")
HasBitrate(line) == Strstr(line, "bitrate=")

\* a decimal with at most one fractional digit, as the progress lines print it
DecimalText(r) ==
    IF r.d = 1 THEN Itoa(r.n) ELSE Itoa(r.n \div r.d) \o "." \o Itoa(r.n % r.d)

\* the shared frame rate is the number of the line's frame-rate field (0 when
\* the field holds no number)
FpsFromLine(line) ==
    \/ Strstr(line, "fps=" \o DecimalText(latest_fps))
    \/ Strstr(line, "fps= " \o DecimalText(latest_fps))
    \/ /\ latest_fps = Zero
       /\ \A c \in 1..10 : /\ ~Strstr(line, "fps=" \o CharAt(DigitChars, c))
                           /\ ~Strstr(line, "fps= " \o CharAt(DigitChars, c))

\* C18: a completed line changes the shared frame rate only if it has a
\* frame-rate field and the shared bitrate only if it has a bitrate field (a
\* bitrate-only line leaves the frame rate, a frame-rate-only line leaves the
\* bitrate, a line with neither leaves both), and a field that is present is
\* stored: once the line is applied the shared value is the field's.
C18_StickyFields ==
    /\ [][/\ latest_fps' # latest_fps => (Applying /\ HasFps(lr.line))
          /\ latest_bitrate' # latest_bitrate => (Applying /\ HasBitrate(lr.line))]_vars
    /\ [](lr.pc = "unlock_fps" => FpsFromLine(lr.line))
    /\ [](lr.pc = "unlock_br" =>
            /\ latest_bitrate # ""
            /\ Strstr(lr.line, "bitrate=" \o latest_bitrate))

\* C18 witness: a bitrate-only line has been applied after a line that set the
\* frame rate; the bitrate is the new one and the frame rate the earlier one.
C18_Witness ==
    /\ lr.pc = "unlock_br"
    /\ ~HasFps(lr.line)
    /\ latest_bitrate = "9k"
    /\ latest_fps = Ratio(30, 1)

(***************************************************************************)
(* The status file.                                                        *)
(***************************************************************************)
\* the labels of the lines of a text, in order (a line's label ends at its
\* first colon)
LabelOf(line) ==
    LET c == Find(line, ":", 1) IN IF c = 0 THEN line ELSE SubSeq(line, 1, c - 1)
Labels(text) == LET ls == SplitLines(text) IN [i \in 1..Len(ls) |-> LabelOf(ls[i])]

\* the value a reader finds under a label: the rest of the first line that
\* starts with "<label>: "
LabelValue(text, label) ==
    LET ls == SplitLines(text)
        S == {i \in 1..Len(ls) : StartsWith(ls[i], label \o ": ")}
        i == CHOOSE k \in S : \A m \in S : k <= m
    IN  IF S = {} THEN "" ELSE SubSeq(ls[i], Len(label) + 3, Len(ls[i]))

\* a published number read back
NumberOf(text, label) == ScanLf(LabelValue(text, label), 1).val

SameValue(a, b) == a.d # 0 /\ b.d # 0 /\ a.n * b.d = b.n * a.d

\* b is a rounded to one decimal: within 0.05 of it
RoundedTo1(a, b) ==
    /\ a.d # 0 /\ b.d # 0 /\ 10 % b.d = 0
    /\ 20 * (a.n * b.d - b.n * a.d) <= a.d * b.d
    /\ 20 * (b.n * a.d - a.n * b.d) <= a.d * b.d

\* the step in which the publisher writes the file out
Published == sw.pc = "fclose" /\ sw'.pc = "sleep"

\* the shared bitrate string the publisher snapshotted (no stream of
\* OverlayStreams carries N/A, which therefore stands for the empty string)
HeldBitrate == IF sw.br = "N/A" THEN "" ELSE sw.br

ResolutionText == Itoa(cfg.width) \o "x" \o Itoa(cfg.height)

\* C19 as stated: re-parsing the file the publisher wrote by its labels gives
\* exactly the frame rate, resolution, bitrate string (the initial empty one
\* included), CPU and memory values held at publish time.
C19_RoundTripExact ==
    [][Published =>
        /\ SameValue(NumberOf(stats', "FPS"), sw.fps)
        /\ LabelValue(stats', "RES") = ResolutionText
        /\ LabelValue(stats', "BitRate") = HeldBitrate
        /\ SameValue(NumberOf(stats', "CPU"), sw.cpu)
        /\ SameValue(NumberOf(stats', "MEM_MB"), sw.mem)]_vars

\* C19 amended: re-parsing the written file by its labels gives the resolution
\* exactly, the bitrate string exactly except that the empty string reads back
\* as N/A, and the frame rate, CPU and memory values rounded to one decimal.
C19_RoundTripRounded ==
    [][Published =>
        /\ RoundedTo1(sw.fps, NumberOf(stats', "FPS"))
        /\ LabelValue(stats', "RES") = ResolutionText
        /\ LabelValue(stats', "BitRate") = (IF HeldBitrate = "" THEN "N/A" ELSE HeldBitrate)
        /\ LabelValue(stats', "CPU") = DecimalText(NumberOf(stats', "CPU")) \o "%"
        /\ RoundedTo1(sw.cpu, NumberOf(stats', "CPU"))
        /\ RoundedTo1(sw.mem, NumberOf(stats', "MEM_MB"))]_vars

\* C19 witness: a file written while the frame rate held was 29.97 and the
\* bitrate 5k reads back 30.0 and 5k.
C19_Witness ==
    /\ sw.pc = "sleep"
    /\ sw.fps = Ratio(2997, 100) /\ sw.br = "5k"
    /\ LabelValue(stats, "FPS") = "30.0"
    /\ LabelValue(stats, "BitRate") = "5k"
    /\ LabelValue(stats, "RES") = ResolutionText

SpecLabels == <<"FPS", "RES", "BitRate", "CPU", "MEM_MB">>
PlaceholderLabels == <<"FPS", "RES", "BitRate", "CPU", "MEM">>
PublishedLabels == <<"FPS", "RES", "BitRate", "CPU", "MEM", "MEM_MB">>

C21_OneProducerOneConsumer ==
    /\ [][\A c \in Children :
            (child[c].st # "alive" /\ child'[c].st = "alive") => child[c].st = "none"]_vars
    /\ [](Cardinality(fifo_wr) <= 1)
    /\ [](~("main" \in fifo_wr /\ child["cam"].st = "alive"))

(***************************************************************************)
(* The order of the Starting steps of main().                              *)
(***************************************************************************)
Spawned(c) == child[c].st # "none"

\* C22 (amended): the placeholder is written, when the status file can be
\* opened, with the directory and the pipe in place and no child spawned; the
\* consumer is spawned after that step with the pipe in place, the producer
\* after the consumer, the threads after both pids are recorded.
C22_StepsInOrder ==
    /\ [][(stats = "none" /\ stats' = stats_placeholder) =>
            tmpdir = "exists" /\ fifo /\ \A c \in Children : ~Spawned(c)]_vars
    /\ [][(~Spawned("prev") /\ Spawned("prev")') =>
            tmpdir = "exists" /\ fifo /\ pc = "start_preview"]_vars
    /\ [](Spawned("cam") => Spawned("prev") /\ prev_pid > 0)
    /\ [](threads # "none" => prev_pid > 0 /\ cam_pid > 0)

\* C22: starting follows a fixed order in every run: directory and pipe, then
\* the status file with the placeholder metrics, then the consumer, then the
\* producer, then the threads once both pids are recorded; so whenever the
\* consumer has been spawned the pre-populated status file is there (until
\* the cleanup removes the directory).
C22_FixedStartOrder ==
    /\ C22_StepsInOrder
    /\ [](Spawned("prev") /\ tmpdir = "exists" => stats # "none")

\* C22 witness: the threads run, both pids are recorded and the status file
\* still holds the placeholder.
C22_Witness ==
    /\ threads = "started" /\ prev_pid > 0 /\ cam_pid > 0
    /\ stats = stats_placeholder /\ Spawned("prev") /\ Spawned("cam")

(***************************************************************************)
(* The metrics lock.                                                       *)
(***************************************************************************)
\* the log reader is between its lock and unlock calls
ReaderInside == lr.pc \in {"set_fps", "unlock_fps", "set_br", "unlock_br"}

\* the publisher is between its lock and unlock calls
PublisherInside == sw.pc \in {"snapshot", "unlock"}

\* C23: the log reader writes the shared record and the publisher reads it only
\* while holding the lock, the two are never inside their critical sections
\* together, the record does not change while the publisher holds the lock,
\* and what the publisher has copied when it unlocks is the record as it
\* stood when the lock was acquired.
C23_LockedAccess ==
    /\ [](ReaderInside => mu = "lr")
    /\ [](PublisherInside => mu = "sw")
    /\ [](~(ReaderInside /\ PublisherInside))
    /\ [][(latest_fps' # latest_fps \/ latest_bitrate' # latest_bitrate) =>
            mu = "lr" /\ mu' = "lr"]_vars
    /\ [][(sw'.fps # sw.fps \/ sw'.br # sw.br) => mu = "sw" /\ mu' = "sw"]_vars
    /\ [][mu = "sw" => latest_fps' = latest_fps /\ latest_bitrate' = latest_bitrate]_vars
    /\ [](sw.pc = "unlock" =>
            sw.fps = latest_fps /\ sw.br = snapshot_bitrate(latest_bitrate))

\* C23 witness: the publisher holds the lock with a frame rate copied that the
\* log reader committed, while the log reader waits for the lock to commit the
\* bitrate of the same line.
C23_Witness ==
    /\ sw.pc = "unlock" /\ mu = "sw"
    /\ lr.pc = "lock_br"
    /\ sw.fps # Zero /\ sw.fps = lr.f

(***************************************************************************)
(* The threads after the liveness flag is cleared.                         *)
(***************************************************************************)
ThreadsEnded ==
    \/ lr.pc = "done" /\ sw.pc = "done"
    \/ threads = "joined"
    \/ pc = "exited"

\* C24: once the flag is cleared it stays cleared while the threads exist, a
\* thread that comes to the head of its loop with the flag cleared starts no
\* further iteration, and both threads end: each returns from its loop, or is
\* cancelled and joined, whether or not the diagnostic stream has data.
C24_ThreadsStopPromptly ==
    /\ [][(running = 0 /\ threads = "started") => running' = 0]_vars
    /\ [][(running = 0 /\ lr.pc = "loop") => lr'.pc \in {"loop", "done"}]_vars
    /\ [][(running = 0 /\ sw.pc = "loop") => sw'.pc \in {"loop", "done"}]_vars
    /\ (running = 0 /\ threads = "started") ~> ThreadsEnded

\* C24 witness: the interrupt path cleared the flag, the stream has nothing
\* left, and both threads have returned while main() still waits for a child.
C24_Witness ==
    /\ running = 0 /\ intr > 0 /\ threads = "started"
    /\ stream = ""
    /\ lr.pc = "done" /\ sw.pc = "done"
    /\ Supervising

(***************************************************************************)
(* The configuration a session runs with.                                  *)
(***************************************************************************)
\* C25: whenever a process has been spawned, the configuration has a positive
\* width, height, frame rate and bit rate: command lines with a resolution
\* that does not parse as two positive integers, or with a frame rate or bit
\* rate that is not a positive number, are rejected before any spawn.
C25_SpawnedConfigPositive ==
    (\E c \in Children : Spawned(c)) =>
        cfg.width > 0 /\ cfg.height > 0 /\ cfg.fps > 0 /\ cfg.bitrate > 0

(***************************************************************************)
(* The termination signals of the interrupt path.                          *)
(***************************************************************************)
\* C26: once the interrupt path has sent a child its termination signal the
\* recorded pid of that child is cleared, so over any sequence of interrupts
\* no child is sent the signal more than once.
C26_SignalledAtMostOnce ==
    \A c \in Children :
        /\ kills[c] > 0 => PidOf(c) <= 0
        /\ kills[c] <= 1

\* C27: no termination signal is sent to the pid of a child whose exit status
\* the supervisor has collected; an interrupt that arrives after the producer
\* was reaped signals the consumer only.
C27_NoSignalAfterReap ==
    [][\A c \in Children : kills'[c] > kills[c] => child[c].st # "reaped"]_vars

(***************************************************************************)
(* The rendezvous on the named pipe.                                       *)
(***************************************************************************)
\* C28: when the consumer has ended before it opened the read end of the named
\* pipe, the supervisor still leaves the start and reaches its exit; stated here
\* for the onboard path, where main() itself opens the pipe for writing
\* (start_csi_camera, line 613).
C28_StartingNeverBlocks ==
    (pc = "start_cam" /\ use_csi /\ have_cam_cmd /\ prev_pid > 0
        /\ child["prev"].st # "alive" /\ ~fifo_rd)
    ~> (pc = "exited")

(***************************************************************************)
(* The publisher's snapshot against the lines the reader parsed.           *)
(***************************************************************************)
\* C29: when each progress line carries both fields, no publish cycle holds the
\* frame rate of one line together with the bitrate of an earlier line.
C29_SnapshotPerLine ==
    \A i \in 1..Len(PairLines), j \in 1..Len(PairLines) :
        j < i => ~(/\ sw.pc = "unlock"
                   /\ sw.fps = progress_fields(PairLines[i]).f
                   /\ sw.br = progress_fields(PairLines[j]).b)

(***************************************************************************)
(* The reader's stores against the byte stream as a whole.                 *)
(***************************************************************************)
\* the stores one completed line makes, in the order of lines 487-502
LineStores(line) ==
    LET p == progress_fields(line)
    IN  (IF p.fps THEN << <<"fps", p.f>> >> ELSE <<>>)
        \o (IF p.br THEN << <<"bitrate", p.b>> >> ELSE <<>>)

\* the stores of a text taken in one piece: one parse for each line that ends
\* in '\r' or '\n', none for what follows the last terminator
RECURSIVE StreamStores(_)
StreamStores(text) ==
    LET k == FirstTerminator(text)
    IN  IF k = 0 THEN <<>>
        ELSE LineStores(AppendLine("", SubSeq(text, 1, k - 1)))
                 \o StreamStores(SubSeq(text, k + 1, Len(text)))

\* what follows the last terminator of a text
RECURSIVE StreamTail(_)
StreamTail(text) ==
    LET k == FirstTerminator(text)
    IN  IF k = 0 THEN AppendLine("", text) ELSE StreamTail(SubSeq(text, k + 1, Len(text)))

\* the bytes the for loop has gone through: those read, less the rest of buf
Scanned == SubSeq(lr.got, 1, Len(lr.got) - Len(lr.buf))

\* C30: between two lines (the reader is not in the middle of the stores of a
\* line), the stores made so far are those of the scanned bytes taken in one
\* piece, whatever the sizes of the reads were, and the line buffer holds the
\* bytes after the last terminator, which have not been parsed.
C30_StoresFollowStream ==
    lr.pc \in {"loop", "read", "scan", "done"} =>
        /\ lr.ups = StreamStores(Scanned)
        /\ lr.line = StreamTail(Scanned)

\* a read ended in the middle of a line after earlier lines were stored, and
\* the next read has brought the rest of that line with its terminator
C30_Witness ==
    /\ lr.pc = "scan"
    /\ lr.line # ""
    /\ FirstTerminator(lr.buf) > 1
    /\ Len(lr.ups) >= 2

====
